---- MODULE Spec2Model ----
(***************************************************************************)
(* Three tool servers (database, web API, medical API): tool dispatch, the *)
(* handlers behind it, the SQLite store of the database server and the     *)
(* HTTP client of the two HTTP servers.  Each run of the model is one run  *)
(* of one of the three programs (variable server).  Text is modelled as    *)
(* text: results are the strings the handlers build.                       *)
(***************************************************************************)
EXTENDS Integers, Sequences, FiniteSets, TLC

VARIABLES server, phase, session, db, now, openConns, last, flight

vars == <<server, phase, session, db, now, openConns, last, flight>>

(* ------------------------------ bounds -------------------------------- *)

\* The wall clock takes the values 0..MaxClock (seconds).
MaxClock == 1

\* AUTOINCREMENT ids handed out to user inserts stop at Len(customers_data) + MaxExtraIds.
MaxExtraIds == 1

\* Connections left open by failed initialisations, before the runtime collects them.
MaxOpenConns == 1

\* Tool calls of one HTTP server that wait for their responses at the same time.
MaxCalls == 2

\* HTTP client sessions one server instance constructs, at most.
MaxClients == 2

(* ------------------------------- text --------------------------------- *)

\* str.startswith(prefix)
StartsWith(s, p) == Len(s) >= Len(p) /\ SubSeq(s, 1, Len(p)) = p

EndsWith(s, p) == Len(s) >= Len(p) /\ SubSeq(s, Len(s) - Len(p) + 1, Len(s)) = p

\* The characters str.strip() removes.
IsSpace(c) == c \in {" ", "\t", "\n", "\r"}

RECURSIVE LStrip(_)
LStrip(s) == IF s # "" /\ IsSpace(Head(s)) THEN LStrip(Tail(s)) ELSE s

RECURSIVE RStrip(_)
RStrip(s) ==
  IF s # "" /\ IsSpace(SubSeq(s, Len(s), Len(s)))
  THEN RStrip(SubSeq(s, 1, Len(s) - 1))
  ELSE s

\* str.strip()
Strip(s) == RStrip(LStrip(s))

UpperMap ==
  [a |-> "A", b |-> "B", c |-> "C", d |-> "D", e |-> "E", f |-> "F", g |-> "G",
   h |-> "H", i |-> "I", j |-> "J", k |-> "K", l |-> "L", m |-> "M", n |-> "N",
   o |-> "O", p |-> "P", q |-> "Q", r |-> "R", s |-> "S", t |-> "T", u |-> "U",
   v |-> "V", w |-> "W", x |-> "X", y |-> "Y", z |-> "Z"]

UpperChar(c) == IF c \in DOMAIN UpperMap THEN UpperMap[c] ELSE c

\* str.upper()
RECURSIVE Upper(_)
Upper(s) == IF s = "" THEN "" ELSE UpperChar(Head(s)) \o Upper(Tail(s))

\* sep.join(parts)
RECURSIVE Join(_, _)
Join(parts, sep) ==
  IF parts = <<>> THEN ""
  ELSE IF Len(parts) = 1 THEN parts[1]
  ELSE parts[1] \o sep \o Join(Tail(parts), sep)

\* The pieces of s between the occurrences of the one-character separator c.
RECURSIVE SplitAcc(_, _, _)
SplitAcc(s, c, cur) ==
  IF s = "" THEN <<cur>>
  ELSE IF Head(s) = c THEN <<cur>> \o SplitAcc(Tail(s), c, "")
  ELSE SplitAcc(Tail(s), c, cur \o Head(s))

Split(s, c) == SplitAcc(s, c, "")

Range(f) == {f[i] : i \in DOMAIN f}

\* s * n
RECURSIVE Repeat(_, _)
Repeat(s, n) ==
  IF n = 0 THEN ""
  ELSE IF n % 2 = 1 THEN s \o Repeat(s, n - 1)
  ELSE LET half == Repeat(s, n \div 2) IN half \o half

(* ------------------------------ values -------------------------------- *)

\* Python values held in rows and arguments: int, str, float (by its repr), None.
I(n) == [int |-> n]

T(s) == [text |-> s]

R(s) == [real |-> s]

None == [none |-> TRUE]

IsNone(v) == "none" \in DOMAIN v

IsText(v) == "text" \in DOMAIN v

\* str(v)
Str(v) ==
  IF "int" \in DOMAIN v THEN ToString(v.int)
  ELSE IF "text" \in DOMAIN v THEN v.text
  ELSE IF "real" \in DOMAIN v THEN v.real
  ELSE "None"

\* bool(v): None, "", 0, [] and {} are false.
Truthy(v) ==
  IF "int" \in DOMAIN v THEN v.int # 0
  ELSE IF "text" \in DOMAIN v THEN v.text # ""
  ELSE IF "list" \in DOMAIN v THEN v.list # <<>>
  ELSE IF "none" \in DOMAIN v THEN FALSE
  ELSE TRUE

(* --------------------------- the SQLite store -------------------------- *)

\* The tables the statements of the model can name.
TableNames == {"customers", "products", "orders", "notes", "sqlite_sequence"}

\* The tables _init_sqlite_sample_data creates, all with an AUTOINCREMENT key.
SeedTables == {"customers", "products", "orders"}

customers_data ==
  << <<T("John Doe"), T("john@example.com"), T("New York")>>,
     <<T("Jane Smith"), T("jane@example.com"), T("Los Angeles")>>,
     <<T("Mike Johnson"), T("mike@example.com"), T("Chicago")>>,
     <<T("Sarah Williams"), T("sarah@example.com"), T("Houston")>>,
     <<T("David Brown"), T("david@example.com"), T("Phoenix")>> >>

products_data ==
  << <<T("Laptop"), R("999.99"), T("Electronics"), I(50)>>,
     <<T("Smartphone"), R("699.99"), T("Electronics"), I(100)>>,
     <<T("Desk Chair"), R("199.99"), T("Furniture"), I(25)>>,
     <<T("Coffee Mug"), R("15.99"), T("Kitchen"), I(200)>>,
     <<T("Notebook"), R("5.99"), T("Stationery"), I(150)>> >>

\* Order rows of which one names a customer no seed row has.
OrdersDataDangling ==
  << <<I(1), I(1), I(2)>>,
     <<I(2), I(2), I(1)>>,
     <<I(3), I(3), I(5)>>,
     <<I(1), I(4), I(3)>>,
     <<I(4), I(1), I(1)>>,
     <<I(6), I(5), I(10)>> >>

orders_data ==
  << <<I(1), I(1), I(2)>>,
     <<I(2), I(2), I(1)>>,
     <<I(3), I(3), I(5)>>,
     <<I(1), I(4), I(3)>>,
     <<I(4), I(1), I(1)>>,
     <<I(5), I(5), I(10)>> >>

SeedData(name) ==
  CASE name = "customers" -> customers_data
    [] name = "products" -> products_data
    [] name = "orders" -> orders_data

\* The value of CURRENT_TIMESTAMP at clock value t.
Timestamp(t) == "2024-01-01 00:00:0" \o ToString(t)

\* The database file before anything is stored in it.  master is sqlite_master
\* (the rows of type table and view, in rowid order); data holds each table's rows.
EmptyDb == [master |-> <<>>, data |-> [n \in TableNames |-> <<>>]]

\* "table", "view" or "none": the kind of the schema object called name.
ObjType(d, name) ==
  IF \E i \in DOMAIN d.master : d.master[i].name = name
  THEN (CHOOSE e \in Range(d.master) : e.name = name).type
  ELSE "none"

MasterAdd(d, type, name) ==
  [d EXCEPT !.master = Append(@, [type |-> type, name |-> name])]

MasterRemove(d, name) ==
  [d EXCEPT !.master = SelectSeq(@, LAMBDA e : e.name # name)]

\* The rows of one text column that name the entries of sqlite_master.
NameRows(entries) == [i \in DOMAIN entries |-> <<T(entries[i].name)>>]

\* The parameters of a statement as the text values they are bound as.
TextValues(params) == [i \in DOMAIN params |-> T(params[i])]

\* The columns of a schema object, as cursor.description names them for SELECT *.
ColumnsOf(type, name) ==
  CASE type = "view" -> <<"id">>
    [] name = "customers" -> <<"id", "name", "email", "city", "created_at">>
    [] name = "products" -> <<"id", "name", "price", "category", "stock">>
    [] name = "orders" -> <<"id", "customer_id", "product_id", "quantity", "order_date">>
    [] name = "sqlite_sequence" -> <<"name", "seq">>
    [] OTHER -> <<"body">>

\* The rows a SELECT reads from a table or from the view (SELECT 1 AS id).
RowsOf(d, name) ==
  IF ObjType(d, name) = "view" THEN << <<I(1)>> >> ELSE d.data[name]

\* One row of PRAGMA table_info: cid, name, type, notnull, dflt_value, pk.
InfoRow(cid, name, type, notnull, dflt, pk) ==
  <<I(cid), T(name), T(type), I(notnull), dflt, I(pk)>>

TableInfo(type, name) ==
  CASE type = "none" -> <<>>
    [] type = "view" -> <<InfoRow(0, "id", "", 0, None, 0)>>
    [] name = "customers" ->
         << InfoRow(0, "id", "INTEGER", 0, None, 1),
            InfoRow(1, "name", "TEXT", 1, None, 0),
            InfoRow(2, "email", "TEXT", 1, None, 0),
            InfoRow(3, "city", "TEXT", 0, None, 0),
            InfoRow(4, "created_at", "DATETIME", 0, T("CURRENT_TIMESTAMP"), 0) >>
    [] name = "products" ->
         << InfoRow(0, "id", "INTEGER", 0, None, 1),
            InfoRow(1, "name", "TEXT", 1, None, 0),
            InfoRow(2, "price", "DECIMAL(10, 2)", 1, None, 0),
            InfoRow(3, "category", "TEXT", 0, None, 0),
            InfoRow(4, "stock", "INTEGER", 0, T("0"), 0) >>
    [] name = "orders" ->
         << InfoRow(0, "id", "INTEGER", 0, None, 1),
            InfoRow(1, "customer_id", "INTEGER", 0, None, 0),
            InfoRow(2, "product_id", "INTEGER", 0, None, 0),
            InfoRow(3, "quantity", "INTEGER", 1, None, 0),
            InfoRow(4, "order_date", "DATETIME", 0, T("CURRENT_TIMESTAMP"), 0) >>
    [] name = "sqlite_sequence" ->
         << InfoRow(0, "name", "", 0, None, 0), InfoRow(1, "seq", "", 0, None, 0) >>
    [] OTHER -> <<InfoRow(0, "body", "TEXT", 0, None, 0)>>

SetMax(S) == IF S = {} THEN 0 ELSE CHOOSE m \in S : \A x \in S : x <= m

\* The largest key AUTOINCREMENT has handed out for the table: its sqlite_sequence row.
SeqOf(d, name) ==
  SetMax({r[2].int : r \in {x \in Range(d.data["sqlite_sequence"]) : x[1] = T(name)}})

\* The key of the next row inserted into an AUTOINCREMENT table.
NextId(d, name) ==
  SetMax({SeqOf(d, name)} \cup {r[1].int : r \in Range(d.data[name])}) + 1

\* sqlite_sequence after key id was handed out for the table: its row is
\* updated in place, or appended when the table has none yet.
SeqPut(rows, name, id) ==
  IF \E i \in DOMAIN rows : rows[i][1] = T(name)
  THEN [i \in DOMAIN rows |-> IF rows[i][1] = T(name) THEN <<T(name), I(id)>> ELSE rows[i]]
  ELSE Append(rows, <<T(name), I(id)>>)

\* The stored row for the supplied values: the key first, the defaulted
\* timestamp column last where the table has one.
StoredRow(name, id, vals, t) ==
  IF name = "products" THEN <<I(id)>> \o vals
  ELSE <<I(id)>> \o vals \o <<T(Timestamp(t))>>

\* INSERT of one row into a seed table.
InsertRow(d, name, vals, t) ==
  LET id == NextId(d, name)
  IN [d EXCEPT !.data[name] = Append(@, StoredRow(name, id, vals, t)),
               !.data["sqlite_sequence"] = SeqPut(@, name, id)]

\* An executemany that stops after the first row.
InsertFirstOnly(d, name, rows, t) == InsertRow(d, name, Head(rows), t)

\* cursor.executemany: the rows are inserted one after the other.
RECURSIVE InsertMany(_, _, _, _)
InsertMany(d, name, rows, t) ==
  IF rows = <<>> THEN d
  ELSE InsertMany(InsertRow(d, name, Head(rows), t), name, Tail(rows), t)

\* DROP TABLE: the table, its rows and its sqlite_sequence row go.
DropTable(d, name) ==
  [MasterRemove(d, name) EXCEPT
     !.data[name] = <<>>,
     !.data["sqlite_sequence"] = SelectSeq(@, LAMBDA r : r[1] # T(name))]

\* CREATE TABLE of a table whose key is not AUTOINCREMENT.
CreateTablePlain(d, name) == MasterAdd(d, "table", name)

\* CREATE TABLE: an AUTOINCREMENT table brings sqlite_sequence into being.
CreateTable(d, name) ==
  LET d1 == MasterAdd(d, "table", name)
  IN IF name \in SeedTables /\ ObjType(d, "sqlite_sequence") = "none"
     THEN MasterAdd(d1, "table", "sqlite_sequence")
     ELSE d1

(* ------------------------- the SQLite statements ----------------------- *)

\* The statement texts callers send in this model.
QCount == "SELECT COUNT(*) FROM customers"

QCountLower == "  select count(*) from customers \n"

QSelectAll == "SELECT * FROM customers"

QListTables == "SELECT name FROM sqlite_master WHERE type='table';"

QWith == "WITH c AS (SELECT 1 AS one) SELECT one FROM c"

QInsert == "INSERT INTO customers (name, email, city) VALUES (?, ?, ?)"

QDelete == "DELETE FROM customers"

QDropTable == "DROP TABLE customers"

QCreateView == "CREATE VIEW customers AS SELECT 1 AS id"

QDropView == "DROP VIEW customers"

QCreateNotes == "CREATE TABLE notes (body TEXT)"

QBad == "SELEC 1"

PragmaPrefix == "PRAGMA table_info("

\* What SQLite makes of a statement text: keywords and identifiers in any
\* case, white space around the statement ignored.  The result column of
\* COUNT(*) is named by the expression as written.
Parse(query) ==
  LET s == Strip(query)
      u == Upper(s)
      inner == IF EndsWith(s, ");") THEN SubSeq(s, Len(PragmaPrefix) + 1, Len(s) - 2)
               ELSE SubSeq(s, Len(PragmaPrefix) + 1, Len(s) - 1)
  IN CASE u = Upper(QCount) ->
            [op |-> "count", name |-> "customers", col |-> SubSeq(s, 8, 15), nbind |-> 0]
       [] u = Upper(QSelectAll) -> [op |-> "select_all", name |-> "customers", nbind |-> 0]
       [] s = QListTables -> [op |-> "master_tables", nbind |-> 0]
       [] u = Upper(QWith) -> [op |-> "with_select", nbind |-> 0]
       [] u = Upper(QInsert) -> [op |-> "insert", name |-> "customers", nbind |-> 3]
       [] u = Upper(QDelete) -> [op |-> "delete_all", name |-> "customers", nbind |-> 0]
       [] u = Upper(QDropTable) ->
            [op |-> "drop_table", name |-> "customers", ifExists |-> FALSE, nbind |-> 0]
       [] u = Upper(QCreateView) -> [op |-> "create_view", name |-> "customers", nbind |-> 0]
       [] u = Upper(QDropView) -> [op |-> "drop_view", name |-> "customers", nbind |-> 0]
       [] u = Upper(QCreateNotes) -> [op |-> "create_table", name |-> "notes", nbind |-> 0]
       [] StartsWith(u, Upper(PragmaPrefix)) /\ (EndsWith(s, ");") \/ EndsWith(s, ")")) ->
            IF inner = "" THEN [op |-> "syntax_error", near |-> ")", nbind |-> 0]
            ELSE [op |-> "table_info", name |-> inner, nbind |-> 0]
       [] OTHER -> [op |-> "syntax_error", near |-> "SELEC", nbind |-> 0]

\* Python's sqlite3 opens a transaction before INSERT, UPDATE, DELETE and
\* REPLACE; every other statement runs in SQLite's autocommit mode.
IsDml(st) == st.op \in {"insert", "delete_all", "insert_seed"}

\* The error SQLite raises when it compiles the statement ("" when none).
PrepareError(d, st) ==
  LET type == IF "name" \in DOMAIN st /\ st.name \in TableNames
              THEN ObjType(d, st.name) ELSE "none"
  IN CASE st.op = "syntax_error" -> "near \"" \o st.near \o "\": syntax error"
       [] st.op \in {"count", "select_all"} /\ type = "none" -> "no such table: " \o st.name
       [] st.op \in {"insert", "delete_all", "insert_seed"} /\ type = "none" ->
            "no such table: " \o st.name
       [] st.op \in {"insert", "delete_all", "insert_seed"} /\ type = "view" ->
            "cannot modify " \o st.name \o " because it is a view"
       [] st.op = "drop_table" /\ type = "none" /\ ~st.ifExists -> "no such table: " \o st.name
       [] st.op = "drop_table" /\ type = "view" -> "use DROP VIEW to delete view " \o st.name
       [] st.op = "drop_table" /\ type = "table" /\ st.name = "sqlite_sequence" ->
            "table sqlite_sequence may not be dropped"
       [] st.op = "drop_view" /\ type = "none" -> "no such view: " \o st.name
       [] st.op = "drop_view" /\ type = "table" -> "use DROP TABLE to delete table " \o st.name
       [] st.op \in {"create_view", "create_table"} /\ type # "none" ->
            type \o " " \o st.name \o " already exists"
       [] OTHER -> ""

BindError(st, nparams) ==
  IF st.nbind = nparams THEN ""
  ELSE "Incorrect number of bindings supplied. The current statement uses "
         \o ToString(st.nbind) \o ", and there are " \o ToString(nparams) \o " supplied."

\* What cursor.execute gives back: the error raised ("" when none), the
\* database as the statement leaves it, cursor.description, the rows
\* fetchall() returns and cursor.rowcount.
Result(err, d, cols, rows, rowcount) ==
  [err |-> err, db |-> d, cols |-> cols, rows |-> rows, rowcount |-> rowcount]

\* The run of a compiled statement with its parameters bound.
Step(d, st, params, t) ==
  CASE st.op = "count" ->
         Result("", d, <<st.col>>, << <<I(Len(RowsOf(d, st.name)))>> >>, -1)
    [] st.op = "select_all" ->
         Result("", d, ColumnsOf(ObjType(d, st.name), st.name), RowsOf(d, st.name), -1)
    [] st.op = "master_tables" ->
         Result("", d, <<"name">>,
                NameRows(SelectSeq(d.master, LAMBDA e : e.type = "table")),
                -1)
    [] st.op = "with_select" -> Result("", d, <<"one">>, << <<I(1)>> >>, -1)
    [] st.op = "table_info" ->
         Result("", d, <<"cid", "name", "type", "notnull", "dflt_value", "pk">>,
                IF st.name \in TableNames THEN TableInfo(ObjType(d, st.name), st.name)
                ELSE <<>>,
                -1)
    [] st.op = "insert" ->
         IF \E i \in DOMAIN d.data[st.name] : d.data[st.name][i][3] = T(params[2])
         THEN Result("UNIQUE constraint failed: customers.email", d, <<>>, <<>>, -1)
         ELSE Result("", InsertRow(d, st.name, TextValues(params), t), <<>>, <<>>, 1)
    [] st.op = "insert_seed" ->
         Result("", InsertMany(d, st.name, SeedData(st.name), t), <<>>, <<>>,
                Len(SeedData(st.name)))
    [] st.op = "delete_all" ->
         Result("", [d EXCEPT !.data[st.name] = <<>>], <<>>, <<>>, Len(d.data[st.name]))
    [] st.op = "drop_table" ->
         Result("", IF ObjType(d, st.name) = "none" THEN d ELSE DropTable(d, st.name),
                <<>>, <<>>, -1)
    [] st.op = "drop_view" -> Result("", MasterRemove(d, st.name), <<>>, <<>>, -1)
    [] st.op = "create_view" -> Result("", MasterAdd(d, "view", st.name), <<>>, <<>>, -1)
    [] st.op = "create_table" -> Result("", CreateTable(d, st.name), <<>>, <<>>, -1)

\* cursor.execute of a compiled statement: compile errors come first, then
\* the binding count, then the run.  A statement that raises changes nothing.
ExecStmt(d, st, params, t) ==
  IF PrepareError(d, st) # "" THEN Result(PrepareError(d, st), d, <<>>, <<>>, -1)
  ELSE IF BindError(st, Len(params)) # ""
  THEN Result(BindError(st, Len(params)), d, <<>>, <<>>, -1)
  ELSE Step(d, st, params, t)

(* ------------------------- calls and their outcome --------------------- *)

\* arguments.get(key, default) on the arguments mapping.
Get(arguments, key, default) ==
  IF key \in DOMAIN arguments THEN arguments[key] ELSE default

\* A list argument.
L(items) == [list |-> items]

NoArgs == [k \in {} |-> None]

\* What a handler did: the text it returned, or the message of the exception
\* it raised (raise # ""); the database file it leaves; the connections it
\* opened and closed; its calls of conn.commit(); the HTTP requests it issued;
\* the HTTP client sessions it created; and what went wrong during the call
\* ("" when nothing did).
Outcome(text, d, opened, closed, commits) ==
  [text |-> text, raise |-> "", db |-> d, opened |-> opened, closed |-> closed,
   commits |-> commits, requests |-> 0, created |-> 0, failure |-> ""]

\* The outcome of a path the call takes because something went wrong: a
\* required parameter missing ("parameter"), a name no tool has
\* ("unknown_tool"), a backend the server does not know ("unsupported"), the
\* MySQL connector missing ("connector"), a statement or connection the
\* database refuses ("database"), no response ("transport"), a response with a
\* 4xx or 5xx status ("http"), a body that is not the JSON asked for ("json"),
\* an exception out of the handler ("exception").
Failed(kind, out) == [out EXCEPT !.failure = kind]

Raised(msg, d) ==
  [text |-> "", raise |-> msg, db |-> d, opened |-> 0, closed |-> 0,
   commits |-> 0, requests |-> 0, created |-> 0, failure |-> "exception"]

\* The message of the AttributeError for a method called on a non-string.
NoAttribute(v, attr) ==
  "'" \o (IF IsNone(v) THEN "NoneType" ELSE IF "int" \in DOMAIN v THEN "int" ELSE "list")
      \o "' object has no attribute '" \o attr \o "'"

(* --------------------------- database server --------------------------- *)

SQLITE_DB == "databases/sample.db"

\* The test of the leading keyword on the text as the caller wrote it.
IsReadStatementAsWritten(query) ==
  \E kw \in {"SELECT", "WITH", "PRAGMA"} : StartsWith(query, kw)

\* A test of the leading keyword that does not know PRAGMA.
IsReadStatementNoPragma(query) ==
  \E kw \in {"SELECT", "WITH"} : StartsWith(Upper(Strip(query)), kw)

\* query.strip().upper().startswith(('SELECT', 'WITH', 'PRAGMA'))
IsReadStatement(query) ==
  \E kw \in {"SELECT", "WITH", "PRAGMA"} : StartsWith(Upper(Strip(query)), kw)

\* The statement texts the calls of this model hand to cursor.execute, with
\* what Parse and IsReadStatement make of each, worked out once.
StatementTexts ==
  {QCount, QCountLower, QSelectAll, QListTables, QWith, QInsert, QDelete, QDropTable,
   QCreateView, QDropView, QCreateNotes, QBad}
    \cup {PragmaPrefix \o n \o ");" : n \in {"customers", "orders", "nope"}}

ParseTable == [q \in StatementTexts |-> Parse(q)]

ReadTable == [q \in StatementTexts |-> IsReadStatement(q)]

Parsed(query) == IF query \in StatementTexts THEN ParseTable[query] ELSE Parse(query)

IsRead(query) == IF query \in StatementTexts THEN ReadTable[query] ELSE IsReadStatement(query)

\* row[col] of a sqlite3.Row: the value of the first column of that name.
RowValue(cols, row, col) ==
  row[CHOOSE i \in DOMAIN cols : cols[i] = col /\ \A j \in DOMAIN cols : cols[j] = col => i <= j]

\* " | ".join(str(row[col]) for col in columns) + "\n"
RowLine(cols, row) ==
  Join([i \in DOMAIN cols |-> Str(RowValue(cols, row, cols[i]))], " | ") \o "\n"

RECURSIVE RowLines(_, _)
RowLines(cols, rows) ==
  IF rows = <<>> THEN "" ELSE RowLine(cols, Head(rows)) \o RowLines(cols, Tail(rows))

\* The text of a non-empty result set.
FormatRows(cols, rows) == "Columns: " \o Join(cols, ", ") \o "\n\n" \o RowLines(cols, rows)

\* _execute_sqlite_query: one connection, one statement.  A statement that
\* opened a transaction is stored only by conn.commit(); closing the
\* connection drops what was not committed.
ExecuteSqliteQuery(d, query, params, t) ==
  LET st == Parsed(query)
      r == ExecStmt(d, st, params, t)
      autocommitted == IF IsDml(st) THEN d ELSE r.db
  IN IF r.err # "" THEN Failed("database", Outcome("SQLite Error: " \o r.err, d, 1, 1, 0))
     ELSE IF IsRead(query)
     THEN IF r.rows # <<>>
          THEN Outcome(FormatRows(r.cols, r.rows), autocommitted, 1, 1, 0)
          ELSE Outcome("No results found", autocommitted, 1, 1, 0)
     ELSE Outcome("Query executed successfully. Rows affected: " \o ToString(r.rowcount),
                  r.db, 1, 1, 1)

\* query.strip().upper().startswith(('SELECT', 'WITH', 'SHOW', 'DESCRIBE'))
IsMysqlReadStatement(query) ==
  \E kw \in {"SELECT", "WITH", "SHOW", "DESCRIBE"} : StartsWith(Upper(Strip(query)), kw)

\* What a call finds of the optional MySQL backend.
MySqlStates == {"not_installed", "no_server"}

\* A MySQL path that runs the statement on the SQLite store instead.
ExecuteMysqlQueryOnSqlite(d, query, params, mysql) == ExecuteSqliteQuery(d, query, params, 0)

\* _execute_mysql_query against a host without the connector or without a server:
\* no connection comes into being.
ExecuteMysqlQuery(d, query, params, mysql) ==
  IF mysql = "not_installed"
  THEN Failed("connector",
              Outcome("Error: mysql-connector-python not installed. Run: pip install mysql-connector-python",
                      d, 0, 0, 0))
  ELSE Failed("database",
              Outcome("MySQL Error: 2003 (HY000): Can't connect to MySQL server on 'localhost:3306' (111)",
                      d, 0, 0, 0))

\* An answer to an unknown backend that does not name it.
UnsupportedUnnamed(d, database) ==
  Failed("unsupported", Outcome("Error: Unsupported database type", d, 0, 0, 0))

\* The else branch of the four handlers: a backend the server does not know.
Unsupported(d, database) ==
  Failed("unsupported", Outcome("Error: Unsupported database type: " \o Str(database), d, 0, 0, 0))

\* _execute_query without its check of the query text.
ExecuteQueryUnchecked(d, query, database, params, t, mysql) ==
  IF ~IsText(query) THEN Raised(NoAttribute(query, "strip"), d)
  ELSE IF database = T("sqlite") THEN ExecuteSqliteQuery(d, query.text, params.list, t)
  ELSE IF database = T("mysql") THEN ExecuteMysqlQuery(d, query.text, params.list, mysql)
  ELSE Unsupported(d, database)

\* _execute_query
ExecuteQuery(d, query, database, params, t, mysql) ==
  IF ~IsText(query) THEN Raised(NoAttribute(query, "strip"), d)
  ELSE IF Strip(query.text) = ""
  THEN Failed("parameter", Outcome("Error: Query cannot be empty", d, 0, 0, 0))
  ELSE IF database = T("sqlite") THEN ExecuteSqliteQuery(d, query.text, params.list, t)
  ELSE IF database = T("mysql") THEN ExecuteMysqlQuery(d, query.text, params.list, mysql)
  ELSE Unsupported(d, database)

\* A _list_tables that knows the SQLite backend only.
ListTablesSqliteOnly(d, database, t, mysql) ==
  IF database = T("sqlite") THEN ExecuteSqliteQuery(d, QListTables, <<>>, t)
  ELSE Unsupported(d, database)

\* _list_tables
ListTables(d, database, t, mysql) ==
  IF database = T("sqlite") THEN ExecuteSqliteQuery(d, QListTables, <<>>, t)
  ELSE IF database = T("mysql") THEN ExecuteMysqlQuery(d, "SHOW TABLES;", <<>>, mysql)
  ELSE Unsupported(d, database)

\* _describe_table
DescribeTable(d, table_name, database, t, mysql) ==
  IF ~Truthy(table_name)
  THEN Failed("parameter", Outcome("Error: Table name is required", d, 0, 0, 0))
  ELSE IF database = T("sqlite")
  THEN ExecuteSqliteQuery(d, PragmaPrefix \o Str(table_name) \o ");", <<>>, t)
  ELSE IF database = T("mysql")
  THEN ExecuteMysqlQuery(d, "DESCRIBE " \o Str(table_name) \o ";", <<>>, mysql)
  ELSE Unsupported(d, database)

\* The statements of an initialisation that drops nothing first.
InitStatementsNoDrops ==
  << [op |-> "create_table", name |-> "customers", nbind |-> 0],
     [op |-> "create_table", name |-> "products", nbind |-> 0],
     [op |-> "create_table", name |-> "orders", nbind |-> 0],
     [op |-> "insert_seed", name |-> "customers", nbind |-> 0],
     [op |-> "insert_seed", name |-> "products", nbind |-> 0],
     [op |-> "insert_seed", name |-> "orders", nbind |-> 0] >>

\* The statements of _init_sqlite_sample_data, in order.
InitStatements ==
  << [op |-> "drop_table", name |-> "orders", ifExists |-> TRUE, nbind |-> 0],
     [op |-> "drop_table", name |-> "customers", ifExists |-> TRUE, nbind |-> 0],
     [op |-> "drop_table", name |-> "products", ifExists |-> TRUE, nbind |-> 0],
     [op |-> "create_table", name |-> "customers", nbind |-> 0],
     [op |-> "create_table", name |-> "products", nbind |-> 0],
     [op |-> "create_table", name |-> "orders", nbind |-> 0],
     [op |-> "insert_seed", name |-> "customers", nbind |-> 0],
     [op |-> "insert_seed", name |-> "products", nbind |-> 0],
     [op |-> "insert_seed", name |-> "orders", nbind |-> 0] >>

\* The statements run one after the other on one connection: disk is the
\* database file, work is what the connection sees (disk plus its open
\* transaction).  A statement outside a transaction is stored at once; the
\* first INSERT opens the transaction.  The run stops at the first error.
RECURSIVE RunStatements(_, _, _, _, _)
RunStatements(disk, work, inTx, stmts, t) ==
  IF stmts = <<>> THEN [err |-> "", disk |-> disk, work |-> work]
  ELSE LET st == Head(stmts)
           r == ExecStmt(work, st, <<>>, t)
       IN IF r.err # "" THEN [err |-> r.err, disk |-> disk, work |-> work]
          ELSE IF inTx \/ IsDml(st) THEN RunStatements(disk, r.db, TRUE, Tail(stmts), t)
          ELSE RunStatements(r.db, r.db, FALSE, Tail(stmts), t)

\* _init_sqlite_sample_data: commit and close come after the last statement;
\* the except branch returns with the connection as it is.
InitSqliteSampleData(d, t) ==
  LET run == RunStatements(d, d, FALSE, InitStatements, t)
  IN IF run.err # ""
     THEN Failed("database",
                 Outcome("Error initializing SQLite sample data: " \o run.err, run.disk, 1, 0, 0))
     ELSE Outcome("SQLite sample data initialized successfully at " \o SQLITE_DB,
                  run.work, 1, 1, 1)

\* _init_mysql_sample_data
InitMysqlSampleData(d) ==
  Outcome("MySQL sample data initialization not implemented yet. Use SQLite for now.",
          d, 0, 0, 0)

\* _init_sample_data
InitSampleData(d, database, t) ==
  IF database = T("sqlite") THEN InitSqliteSampleData(d, t)
  ELSE IF database = T("mysql") THEN InitMysqlSampleData(d)
  ELSE Unsupported(d, database)

\* The tool names handle_list_tools publishes.
DbTools == {"execute_query", "list_tables", "describe_table", "init_sample_data"}

\* handle_call_tool without its try: an exception leaves the call as it is.
Uncaught(out) == out

\* An except branch that returns str(e) alone.
CaughtBare(out) ==
  IF out.raise # "" THEN [out EXCEPT !.text = out.raise, !.raise = ""] ELSE out

\* An except branch that labels the text as the handlers label theirs.
CaughtLabelled(out) ==
  IF out.raise # "" THEN [out EXCEPT !.text = "Tool Error: " \o out.raise, !.raise = ""] ELSE out

\* except Exception in handle_call_tool: the exception becomes the result text.
Caught(out) ==
  IF out.raise # "" THEN [out EXCEPT !.text = "Error: " \o out.raise, !.raise = ""] ELSE out

\* The branch chain of handle_call_tool, inside its try.
DbRoute(name, args, d, t, mysql) ==
  CASE name = "execute_query" ->
         ExecuteQuery(d, Get(args, "query", T("")), Get(args, "database", T("sqlite")),
                      Get(args, "params", L(<<>>)), t, mysql)
    [] name = "list_tables" -> ListTables(d, Get(args, "database", T("sqlite")), t, mysql)
    [] name = "describe_table" ->
         DescribeTable(d, Get(args, "table_name", T("")), Get(args, "database", T("sqlite")),
                       t, mysql)
    [] name = "init_sample_data" -> InitSampleData(d, Get(args, "database", T("sqlite")), t)
    [] OTHER -> Failed("unknown_tool", Raised("Unknown tool: " \o name, d))

\* handle_call_tool of the database server.
DbHandleCallTool(name, arguments, d, t, mysql) ==
  Caught(DbRoute(name, IF IsNone(arguments) THEN NoArgs ELSE arguments, d, t, mysql))

(* ------------------------------- HTTP ---------------------------------- *)

\* Bodies around the length at which the formatter cuts: 2000, 2001 and 3000
\* characters of text, a JSON array of 701 numbers (2103 characters) and 2500
\* characters that are no JSON.
Body2000 == Repeat("0123456789", 200)

Body2001 == Body2000 \o "x"

Body3000 == Repeat("0123456789", 300)

LongJson == "[" \o Repeat("1, ", 700) \o "1]"

LongJsonPretty == "[\n" \o Repeat("  1,\n", 700) \o "  1\n]"

LongNotJson == Repeat("oops ", 500)

\* json.dumps(json.loads(body), indent=2) for the bodies of this model;
\* "" stands for a body json.loads rejects.
JsonPretty(body) ==
  CASE body = "{\"a\": 1}" -> "{\n  \"a\": 1\n}"
    [] body = LongJson -> LongJsonPretty
    [] body = "{\"error\":\"not found\"}" -> "{\n  \"error\": \"not found\"\n}"
    [] body = "[]" -> "[]"
    [] OTHER -> ""

IsJson(body) == JsonPretty(body) # ""

Headers(ctype) ==
  IF ctype = "" THEN [h \in {"Server"} |-> "nginx"]
  ELSE [h \in {"Content-Type", "Server"} |-> IF h = "Server" THEN "nginx" ELSE ctype]

Response(status, reason, ctype, body) ==
  [status |-> status, reason |-> reason, headers |-> Headers(ctype), body |-> body]

\* What the network gives a request: a response, or the exception the client raises.
NetOutcomes ==
  { Response(200, "OK", "application/json", "{\"a\": 1}"),
    Response(200, "OK", "application/json", "oops"),
    Response(200, "OK", "text/html", "<html>ok</html>"),
    Response(200, "OK", "", "[]"),
    Response(201, "Created", "application/json", "{\"a\": 1}"),
    Response(404, "Not Found", "application/json", "{\"error\":\"not found\"}"),
    Response(500, "Internal Server Error", "text/html", "oops"),
    Response(200, "OK", "text/plain", Body2000),
    Response(200, "OK", "text/plain", Body2001),
    Response(200, "OK", "text/html; charset=utf-8", Body3000),
    Response(200, "OK", "application/json; charset=utf-8", LongJson),
    Response(200, "OK", "application/json", LongNotJson),
    [fail |-> "Cannot connect to host example.com:80 ssl:default [Connect call failed]"] }

\* response.headers.get(name, default): header names match in any case.
HeaderGet(headers, name, default) ==
  IF \E h \in DOMAIN headers : Upper(h) = Upper(name)
  THEN headers[CHOOSE h \in DOMAIN headers : Upper(h) = Upper(name)]
  ELSE default

\* dict(response.headers).get(name, default): the name as the server sent it.
DictGet(headers, name, default) ==
  IF name \in DOMAIN headers THEN headers[name] ELSE default

\* needle in haystack
RECURSIVE Contains(_, _)
Contains(hay, needle) ==
  IF Len(hay) < Len(needle) THEN FALSE
  ELSE StartsWith(hay, needle) \/ Contains(Tail(hay), needle)

\* An exchange that sends the request a second time when no response came.
ExchangeRetries(sess, net) ==
  [created |-> IF sess = "None" THEN 1 ELSE 0,
   requests |-> IF sess = "closed" THEN 0 ELSE IF "fail" \in DOMAIN net THEN 2 ELSE 1,
   fail |-> IF sess = "closed" THEN "Session is closed"
            ELSE IF "fail" \in DOMAIN net THEN net.fail ELSE "",
   resp |-> net]

\* _ensure_session followed by one request on self.session.  A session that
\* was closed stays in place and refuses the request.
Exchange(sess, net) ==
  [created |-> IF sess = "None" THEN 1 ELSE 0,
   requests |-> IF sess = "closed" THEN 0 ELSE 1,
   fail |-> IF sess = "closed" THEN "Session is closed"
            ELSE IF "fail" \in DOMAIN net THEN net.fail ELSE "",
   resp |-> net]

\* What went wrong with the request itself: no response, or a 4xx/5xx status.
HttpFailure(x) ==
  IF x.fail # "" THEN "transport" ELSE IF x.resp.status >= 400 THEN "http" ELSE ""

HttpOutcome(text, x) ==
  [Outcome(text, EmptyDb, 0, 0, 0) EXCEPT
     !.requests = x.requests, !.created = x.created, !.failure = HttpFailure(x)]

\* await response.json(): the content type is checked, then the body parsed.
ResponseJson(resp) ==
  IF ~Contains(HeaderGet(resp.headers, "content-type", ""), "application/json")
  THEN [err |-> ToString(resp.status)
                  \o ", message='Attempt to decode JSON with unexpected mimetype: "
                  \o HeaderGet(resp.headers, "content-type", "") \o "'",
        decode |-> FALSE, text |-> ""]
  ELSE IF ~IsJson(resp.body)
  THEN [err |-> "Expecting value: line 1 column 1 (char 0)", decode |-> TRUE, text |-> ""]
  ELSE [err |-> "", decode |-> FALSE, text |-> JsonPretty(resp.body)]

(* ---------------------------- web API server --------------------------- *)

TruncateAt == 2000

\* A formatter that cuts a body from the limit on, not only beyond it.
FormatResponseCutsAtLimit(resp) ==
  LET content_type == HeaderGet(resp.headers, "content-type", "")
      text == resp.body
      head == "Status: " \o ToString(resp.status) \o "\n"
                \o "Content-Type: " \o content_type \o "\n"
                \o "Response Length: " \o ToString(Len(text)) \o " characters\n\n"
  IN IF Contains(content_type, "application/json")
     THEN IF IsJson(text) THEN head \o JsonPretty(text) ELSE head \o text
     ELSE IF Len(text) >= TruncateAt
     THEN head \o SubSeq(text, 1, TruncateAt) \o "\n... (truncated)"
     ELSE head \o text

\* A formatter that cuts every long body, JSON or not.
FormatResponseCutsJson(resp) ==
  LET content_type == HeaderGet(resp.headers, "content-type", "")
      text == resp.body
      shown == IF Contains(content_type, "application/json") /\ IsJson(text)
               THEN JsonPretty(text) ELSE text
      head == "Status: " \o ToString(resp.status) \o "\n"
                \o "Content-Type: " \o content_type \o "\n"
                \o "Response Length: " \o ToString(Len(text)) \o " characters\n\n"
  IN IF Len(shown) > TruncateAt
     THEN head \o SubSeq(shown, 1, TruncateAt) \o "\n... (truncated)"
     ELSE head \o shown

\* _format_response
FormatResponse(resp) ==
  LET content_type == HeaderGet(resp.headers, "content-type", "")
      text == resp.body
      head == "Status: " \o ToString(resp.status) \o "\n"
                \o "Content-Type: " \o content_type \o "\n"
                \o "Response Length: " \o ToString(Len(text)) \o " characters\n\n"
  IN IF Contains(content_type, "application/json")
     THEN IF IsJson(text) THEN head \o JsonPretty(text) ELSE head \o text
     ELSE IF Len(text) > TruncateAt
     THEN head \o SubSeq(text, 1, TruncateAt) \o "\n... (truncated)"
     ELSE head \o text

UrlRequired == Failed("parameter", Outcome("Error: URL is required", EmptyDb, 0, 0, 0))

\* _post_request, _put_request, _delete_request: label is the word the except
\* branch puts before "Request Error".
FormattedRequest(label, url, sess, net) ==
  IF ~Truthy(url) THEN UrlRequired
  ELSE LET x == Exchange(sess, net)
       IN IF x.fail # "" THEN HttpOutcome(label \o " Request Error: " \o x.fail, x)
          ELSE IF Contains(HeaderGet(x.resp.headers, "content-type", ""), "application/json")
                  /\ ~IsJson(x.resp.body) /\ HttpFailure(x) = ""
          THEN Failed("json", HttpOutcome(FormatResponse(x.resp), x))
          ELSE HttpOutcome(FormatResponse(x.resp), x)

\* Formatting lines for get_request that show every body whole.
GetRequestFormatUncut(resp) ==
  LET content_type == HeaderGet(resp.headers, "content-type", "")
      text == resp.body
      result == "Status: " \o ToString(resp.status) \o "\n"
                  \o "Content-Type: " \o content_type \o "\n"
                  \o "Response Length: " \o ToString(Len(text)) \o " characters\n\n"
  IN IF Contains(content_type, "application/json") /\ IsJson(text)
     THEN result \o JsonPretty(text)
     ELSE result \o text

\* The lines of _get_request that build its text from the response: it does
\* not call _format_response.
GetRequestFormat(resp) ==
  LET status == resp.status
      content_type == HeaderGet(resp.headers, "content-type", "")
      text == resp.body
      result == "Status: " \o ToString(status) \o "\n"
                  \o "Content-Type: " \o content_type \o "\n"
                  \o "Response Length: " \o ToString(Len(text)) \o " characters\n\n"
  IN IF Contains(content_type, "application/json")
     THEN IF IsJson(text) THEN result \o JsonPretty(text) ELSE result \o text
     ELSE IF Len(text) > 2000
     THEN result \o SubSeq(text, 1, 2000) \o "\n... (truncated)"
     ELSE result \o text

\* _get_request
GetRequest(url, sess, net) ==
  IF ~Truthy(url) THEN UrlRequired
  ELSE LET x == Exchange(sess, net)
       IN IF x.fail # "" THEN HttpOutcome("GET Request Error: " \o x.fail, x)
          ELSE IF Contains(HeaderGet(x.resp.headers, "content-type", ""), "application/json")
                  /\ ~IsJson(x.resp.body) /\ HttpFailure(x) = ""
          THEN Failed("json", HttpOutcome(GetRequestFormat(x.resp), x))
          ELSE HttpOutcome(GetRequestFormat(x.resp), x)

\* A fetch_json that renders the response as the four request tools do.
FetchJsonFormatted(url, sess, net) == FormattedRequest("Fetch JSON", url, sess, net)

\* _fetch_json
FetchJson(url, sess, net) ==
  IF ~Truthy(url) THEN UrlRequired
  ELSE LET x == Exchange(sess, net)
           j == ResponseJson(x.resp)
       IN IF x.fail # "" THEN HttpOutcome("Fetch JSON Error: " \o x.fail, x)
          ELSE IF x.resp.status # 200
          THEN HttpOutcome("Error: HTTP " \o ToString(x.resp.status), x)
          ELSE IF j.err # "" /\ j.decode
          THEN Failed("json", HttpOutcome("Error: Response is not valid JSON", x))
          ELSE IF j.err # "" THEN Failed("json", HttpOutcome("Fetch JSON Error: " \o j.err, x))
          ELSE HttpOutcome(j.text, x)

\* A check_status that treats a 4xx or 5xx status as an error of the request.
CheckStatusRaisesForStatus(url, sess, net) ==
  IF ~Truthy(url) THEN UrlRequired
  ELSE LET x == Exchange(sess, net)
       IN IF x.fail # "" THEN HttpOutcome("Status Check Error: " \o x.fail, x)
          ELSE IF x.resp.status >= 400
          THEN HttpOutcome("Status Check Error: " \o ToString(x.resp.status)
                             \o ", message='" \o x.resp.reason \o "'", x)
          ELSE HttpOutcome("URL: " \o Str(url) \o "\n"
                             \o "Status: " \o ToString(x.resp.status) \o "\n", x)

\* _check_status
CheckStatus(url, sess, net) ==
  IF ~Truthy(url) THEN UrlRequired
  ELSE LET x == Exchange(sess, net)
           headers == x.resp.headers
       IN IF x.fail # "" THEN HttpOutcome("Status Check Error: " \o x.fail, x)
          ELSE HttpOutcome(
                 "URL: " \o Str(url) \o "\n"
                   \o "Status: " \o ToString(x.resp.status) \o "\n"
                   \o "Status Text: " \o x.resp.reason \o "\n"
                   \o "Server: " \o DictGet(headers, "server", "Unknown") \o "\n"
                   \o "Content-Type: " \o DictGet(headers, "content-type", "Unknown") \o "\n"
                   \o "Content-Length: " \o DictGet(headers, "content-length", "Unknown") \o "\n",
                 x)

WebTools ==
  {"get_request", "post_request", "put_request", "delete_request", "fetch_json", "check_status"}

\* A branch chain that has lost the branch of a tool the registry lists.
WebRouteWithoutCheckStatus(name, args, sess, net) ==
  CASE name = "get_request" -> GetRequest(Get(args, "url", T("")), sess, net)
    [] name = "post_request" -> FormattedRequest("POST", Get(args, "url", T("")), sess, net)
    [] name = "put_request" -> FormattedRequest("PUT", Get(args, "url", T("")), sess, net)
    [] name = "delete_request" -> FormattedRequest("DELETE", Get(args, "url", T("")), sess, net)
    [] name = "fetch_json" -> FetchJson(Get(args, "url", T("")), sess, net)
    [] OTHER -> Failed("unknown_tool", Raised("Unknown tool: " \o name, EmptyDb))

\* The branch chain of handle_call_tool, inside its try.
WebRoute(name, args, sess, net) ==
  CASE name = "get_request" -> GetRequest(Get(args, "url", T("")), sess, net)
    [] name = "post_request" -> FormattedRequest("POST", Get(args, "url", T("")), sess, net)
    [] name = "put_request" -> FormattedRequest("PUT", Get(args, "url", T("")), sess, net)
    [] name = "delete_request" -> FormattedRequest("DELETE", Get(args, "url", T("")), sess, net)
    [] name = "fetch_json" -> FetchJson(Get(args, "url", T("")), sess, net)
    [] name = "check_status" -> CheckStatus(Get(args, "url", T("")), sess, net)
    [] OTHER -> Failed("unknown_tool", Raised("Unknown tool: " \o name, EmptyDb))

\* handle_call_tool of the web API server.
WebHandleCallTool(name, arguments, sess, net) ==
  Caught(WebRoute(name, IF IsNone(arguments) THEN NoArgs ELSE arguments, sess, net))

(* --------------------------- medical API server ------------------------ *)

\* The lines every tool ends with: the JSON body on status 200, the status
\* and body otherwise; label is the tool's name in its except branch.
MedicalResult(label, x) ==
  LET j == ResponseJson(x.resp)
  IN IF x.fail # "" THEN HttpOutcome(label \o " Error: " \o x.fail, x)
     ELSE IF x.resp.status = 200
     THEN IF j.err # "" THEN Failed("json", HttpOutcome(label \o " Error: " \o j.err, x))
          ELSE HttpOutcome(j.text, x)
     ELSE HttpOutcome("Error: HTTP " \o ToString(x.resp.status) \o " - " \o x.resp.body, x)

\* A tool that checks its parameters before it touches the session.
CheckedTool(label, valid, message, sess, net) ==
  IF ~valid THEN Failed("parameter", Outcome(message, EmptyDb, 0, 0, 0))
  ELSE MedicalResult(label, Exchange(sess, net))

\* A tool that calls _ensure_session first and checks its parameters after.
SessionFirstTool(label, valid, message, sess, net) ==
  IF ~valid
  THEN [Failed("parameter", Outcome(message, EmptyDb, 0, 0, 0)) EXCEPT
          !.created = IF sess = "None" THEN 1 ELSE 0]
  ELSE MedicalResult(label, Exchange(sess, net))

\* _icd11_lookup
Icd11Lookup(entity_id, search_term, sess, net) ==
  SessionFirstTool("ICD-11 Lookup", Truthy(entity_id) \/ Truthy(search_term),
                   "Error: Either entity_id or search_term is required", sess, net)

\* _fda_drug_search
FdaDrugSearch(search_term, limit, sess, net) ==
  CheckedTool("FDA Drug Search", Truthy(search_term), "Error: Search term is required",
              sess, net)

\* _fda_device_search
FdaDeviceSearch(search_term, limit, sess, net) ==
  CheckedTool("FDA Device Search", Truthy(search_term), "Error: Search term is required",
              sess, net)

\* _infermedica_diagnosis
InfermedicaDiagnosis(age, sex, symptoms, api_key, sess, net) ==
  CheckedTool("Infermedica Diagnosis",
              Truthy(age) /\ Truthy(sex) /\ Truthy(symptoms) /\ Truthy(api_key),
              "Error: Age, sex, symptoms, and API key are required", sess, net)

\* _nutrition_facts
NutritionFacts(food_query, api_key, app_id, sess, net) ==
  CheckedTool("Nutrition Facts", Truthy(food_query) /\ Truthy(api_key) /\ Truthy(app_id),
              "Error: Food query, API key, and App ID are required", sess, net)

\* _npi_provider_lookup: params is empty only when no number, no name and no state is given.
NpiProviderLookup(npi_number, provider_name, state, sess, net) ==
  SessionFirstTool("NPI Provider Lookup",
                   Truthy(npi_number) \/ Truthy(provider_name) \/ Truthy(state),
                   "Error: Either NPI number or provider name is required", sess, net)

\* _cms_marketplace_plans
CmsMarketplacePlans(zip_code, age, api_key, sess, net) ==
  CheckedTool("CMS Marketplace", Truthy(zip_code) /\ Truthy(api_key),
              "Error: ZIP code and API key are required", sess, net)

\* _covid_stats_global
CovidStatsGlobal(sess, net) == MedicalResult("COVID Stats Global", Exchange(sess, net))

\* _covid_stats_country
CovidStatsCountry(country, sess, net) ==
  CheckedTool("COVID Stats Country", Truthy(country), "Error: Country is required", sess, net)

\* _nhs_scotland_data
NhsScotlandData(resource_id, query, sess, net) ==
  CheckedTool("NHS Scotland Data", Truthy(resource_id), "Error: Resource ID is required",
              sess, net)

MedTools ==
  {"icd11_lookup", "fda_drug_search", "fda_device_search", "infermedica_diagnosis",
   "nutrition_facts", "npi_provider_lookup", "cms_marketplace_plans", "covid_stats_global",
   "covid_stats_country", "nhs_scotland_data"}

\* The "required" list of each tool's inputSchema in handle_list_tools.
MedRequired(name) ==
  CASE name \in {"fda_drug_search", "fda_device_search"} -> {"search_term"}
    [] name = "infermedica_diagnosis" -> {"age", "sex", "symptoms", "api_key"}
    [] name = "nutrition_facts" -> {"food_query", "api_key", "app_id"}
    [] name = "cms_marketplace_plans" -> {"zip_code", "api_key"}
    [] name = "covid_stats_country" -> {"country"}
    [] name = "nhs_scotland_data" -> {"resource_id"}
    [] OTHER -> {}

\* The branch chain of handle_call_tool, inside its try.
MedRoute(name, args, sess, net) ==
  CASE name = "icd11_lookup" ->
         Icd11Lookup(Get(args, "entity_id", None), Get(args, "search_term", None), sess, net)
    [] name = "fda_drug_search" ->
         FdaDrugSearch(Get(args, "search_term", T("")), Get(args, "limit", I(5)), sess, net)
    [] name = "fda_device_search" ->
         FdaDeviceSearch(Get(args, "search_term", T("")), Get(args, "limit", I(5)), sess, net)
    [] name = "infermedica_diagnosis" ->
         InfermedicaDiagnosis(Get(args, "age", None), Get(args, "sex", None),
                              Get(args, "symptoms", L(<<>>)), Get(args, "api_key", T("")),
                              sess, net)
    [] name = "nutrition_facts" ->
         NutritionFacts(Get(args, "food_query", T("")), Get(args, "api_key", T("")),
                        Get(args, "app_id", T("")), sess, net)
    [] name = "npi_provider_lookup" ->
         NpiProviderLookup(Get(args, "npi_number", None), Get(args, "provider_name", None),
                           Get(args, "state", None), sess, net)
    [] name = "cms_marketplace_plans" ->
         CmsMarketplacePlans(Get(args, "zip_code", T("")), Get(args, "age", None),
                             Get(args, "api_key", T("")), sess, net)
    [] name = "covid_stats_global" -> CovidStatsGlobal(sess, net)
    [] name = "covid_stats_country" -> CovidStatsCountry(Get(args, "country", T("")), sess, net)
    [] name = "nhs_scotland_data" ->
         NhsScotlandData(Get(args, "resource_id", T("")), Get(args, "query", None), sess, net)
    [] OTHER -> Failed("unknown_tool", Raised("Unknown tool: " \o name, EmptyDb))

\* handle_call_tool of the medical API server.
MedHandleCallTool(name, arguments, sess, net) ==
  Caught(MedRoute(name, IF IsNone(arguments) THEN NoArgs ELSE arguments, sess, net))

(* ------------------------------ the calls ------------------------------ *)

Ann == L(<<"Ann", "ann@example.com", "Boston">>)

\* The statements callers send to execute_query.
Queries ==
  << QCount, QCountLower, QSelectAll, QListTables, QWith, QInsert, QDelete, QDropTable,
     QCreateView, QDropView, QCreateNotes, QBad >>

\* The tool calls the database server receives, <<name, arguments>>: every
\* tool with its parameters present, absent and ill-typed, every backend,
\* names no server publishes, and the statements that bring the store into
\* the states where initialisation fails.
DbInputs ==
  << <<"execute_query", [query |-> T(QCount)]>>,
     <<"execute_query", [query |-> T(QDropTable)]>>,
     <<"execute_query", [query |-> T(QCreateView)]>>,
     <<"execute_query", [query |-> T(QDropView)]>>,
     <<"execute_query", [query |-> T(QBad)]>>,
     <<"execute_query", NoArgs>>,
     <<"execute_query", None>>,
     <<"execute_query", [query |-> None]>>,
     <<"execute_query", [query |-> T("")]>>,
     <<"execute_query", [query |-> T(" \t\n")]>>,
     <<"execute_query", [query |-> T(QCount), database |-> T("mysql")]>>,
     <<"execute_query", [query |-> T(QCount), database |-> T("oracle")]>>,
     <<"execute_query", [database |-> T("oracle")]>>,
     <<"list_tables", NoArgs>>,
     <<"list_tables", [database |-> T("mysql")]>>,
     <<"list_tables", [database |-> T("oracle")]>>,
     <<"describe_table", NoArgs>>,
     <<"describe_table", [table_name |-> None]>>,
     <<"describe_table", [table_name |-> T("customers")]>>,
     <<"describe_table", [table_name |-> T("customers"), database |-> T("mysql")]>>,
     <<"describe_table", [database |-> T("oracle")]>>,
     <<"describe_table", [table_name |-> T("customers"), database |-> T("oracle")]>>,
     <<"init_sample_data", NoArgs>>,
     <<"init_sample_data", [database |-> T("mysql")]>>,
     <<"init_sample_data", [database |-> T("oracle")]>>,
     <<"drop_database", NoArgs>>,
     <<"EXECUTE_QUERY", [query |-> T(QCount)]>>,
     <<"fetch_json", None>>,
     <<"", NoArgs>> >>

\* The calls that read and change the store: every statement of Queries, the
\* insert with its parameters, and the three tools that work on the store.
StoreInputs ==
  [i \in DOMAIN Queries |-> <<"execute_query", [query |-> T(Queries[i])]>>]
  \o << <<"execute_query", [query |-> T(QInsert), params |-> Ann]>>,
        <<"list_tables", NoArgs>>,
        <<"list_tables", [database |-> T("mysql")]>>,
        <<"describe_table", [table_name |-> T("orders")]>>,
        <<"describe_table", [table_name |-> T("orders"), database |-> T("mysql")]>>,
        <<"describe_table", [table_name |-> T("nope")]>>,
        <<"init_sample_data", None>> >>

\* The calls made while the clock runs.
ClockInputs ==
  << <<"init_sample_data", NoArgs>>,
     <<"execute_query", [query |-> T(QSelectAll)]>>,
     <<"execute_query", [query |-> T(QInsert), params |-> Ann]>>,
     <<"execute_query", [query |-> T(QDelete)]>>,
     <<"execute_query", [query |-> T(QCount)]>> >>

Url == T("http://example.com/api")

\* The tool calls the web API server receives.
WebInputs ==
  << <<"get_request", [url |-> Url]>>,
     <<"get_request", NoArgs>>,
     <<"get_request", None>>,
     <<"post_request", [url |-> Url]>>,
     <<"post_request", [url |-> T("")]>>,
     <<"put_request", [url |-> Url]>>,
     <<"put_request", [url |-> None]>>,
     <<"delete_request", [url |-> Url]>>,
     <<"delete_request", NoArgs>>,
     <<"fetch_json", [url |-> Url]>>,
     <<"fetch_json", [url |-> T("")]>>,
     <<"check_status", [url |-> Url]>>,
     <<"check_status", NoArgs>>,
     <<"execute_query", [url |-> Url]>>,
     <<"GET_REQUEST", [url |-> Url]>>,
     <<"", None>> >>

Key == T("k3y")

\* The tool calls the medical API server receives.
MedInputs ==
  << <<"icd11_lookup", [entity_id |-> T("123")]>>,
     <<"icd11_lookup", [search_term |-> T("flu")]>>,
     <<"icd11_lookup", NoArgs>>,
     <<"fda_drug_search", [search_term |-> T("aspirin")]>>,
     <<"fda_drug_search", None>>,
     <<"fda_device_search", [search_term |-> T("pump")]>>,
     <<"fda_device_search", [limit |-> I(3)]>>,
     <<"infermedica_diagnosis",
       [age |-> I(30), sex |-> T("male"), symptoms |-> L(<<"headache">>), api_key |-> Key]>>,
     <<"infermedica_diagnosis",
       [age |-> I(0), sex |-> T("female"), symptoms |-> L(<<"fever">>), api_key |-> Key]>>,
     <<"infermedica_diagnosis", [age |-> I(30), sex |-> T("male"), api_key |-> Key]>>,
     <<"nutrition_facts", [food_query |-> T("apple"), api_key |-> Key, app_id |-> T("app")]>>,
     <<"nutrition_facts", [food_query |-> T("apple")]>>,
     <<"npi_provider_lookup", [npi_number |-> T("1234567890"), provider_name |-> T("Ann Lee")]>>,
     <<"npi_provider_lookup", [provider_name |-> T("Ann Lee")]>>,
     <<"npi_provider_lookup", [state |-> T("NY")]>>,
     <<"npi_provider_lookup", NoArgs>>,
     <<"cms_marketplace_plans", [zip_code |-> T("10001"), api_key |-> Key]>>,
     <<"cms_marketplace_plans", [zip_code |-> T("10001")]>>,
     <<"covid_stats_global", NoArgs>>,
     <<"covid_stats_global", None>>,
     <<"covid_stats_country", [country |-> T("France")]>>,
     <<"covid_stats_country", NoArgs>>,
     <<"nhs_scotland_data", [resource_id |-> T("abc")]>>,
     <<"nhs_scotland_data", [query |-> T("x")]>>,
     <<"list_tables", NoArgs>>,
     <<"", None>> >>

(* --------------------------- the state machine ------------------------- *)

\* What a call that issued no request, or got no response, has for a response.
NoResponse == [fail |-> ""]

\* The last tool call as its caller saw it: the content list it got back
\* (empty when the exception escaped), and what the call did on the way.
CallRecord(srv, name, arguments, out) ==
  [server |-> srv, name |-> name, arguments |-> arguments,
   content |-> IF out.raise = "" THEN <<[type |-> "text", text |-> out.text]>> ELSE <<>>,
   escaped |-> out.raise, opened |-> out.opened, closed |-> out.closed,
   commits |-> out.commits, requests |-> out.requests, created |-> out.created,
   failure |-> out.failure, afterInit |-> FALSE, response |-> NoResponse]

NoCall ==
  [server |-> "", name |-> "", arguments |-> None, content |-> <<>>, escaped |-> "",
   opened |-> 0, closed |-> 0, commits |-> 0, requests |-> 0, created |-> 0, failure |-> "",
   afterInit |-> FALSE, response |-> NoResponse]

\* The call the record is of was init_sample_data and it initialised the SQLite store.
InitOk(rec) ==
  /\ rec.name = "init_sample_data"
  /\ rec.content =
       <<[type |-> "text", text |-> "SQLite sample data initialized successfully at " \o SQLITE_DB]>>

Servers == {"database", "webapi", "medical"}

\* The calls of an HTTP server that can wait for a response at the same time.
Slots == 1..MaxCalls

\* The HTTP client sessions of the server object: made counts the
\* aiohttp.ClientSession() constructions, ref is the construction self.session
\* refers to (0 for None), and calls[s] is the call that waits in slot s for
\* its response (input 0: none) with the client its request went out on.
NoFlights ==
  [made |-> 0, ref |-> 0, calls |-> [s \in Slots |-> [input |-> 0, client |-> 0]]]

\* self.session = aiohttp.ClientSession()
NewClient(f) == [f EXCEPT !.made = f.made + 1, !.ref = f.made + 1]

\* An _ensure_session that constructs a client for every call.
EnsureSessionAlways(f) == NewClient(f)

\* _ensure_session: it has no await inside, so the test and the assignment
\* are one step.
EnsureSession(f) == IF f.ref = 0 THEN NewClient(f) ELSE f

\* One of the three programs has been started and has built its server object.
Init ==
  /\ server \in Servers
  /\ phase = "constructed"
  /\ session = "None"
  /\ db = EmptyDb
  /\ now = 0
  /\ openConns = 0
  /\ last = NoCall
  /\ flight = NoFlights

\* An entry that leaves the session to the first call that needs it.
EnterWithoutSession ==
  /\ phase = "constructed"
  /\ phase' = "running"
  /\ UNCHANGED <<server, session, db, now, openConns, last, flight>>

\* main(): the HTTP servers enter their context (__aenter__ creates the
\* session), then every server runs on stdio.
Enter ==
  /\ phase = "constructed"
  /\ phase' = "running"
  /\ session' = IF server = "database" THEN session ELSE "open"
  /\ flight' = IF server = "database" THEN flight ELSE NewClient(flight)
  /\ UNCHANGED <<server, db, now, openConns, last>>

\* An exit that stops the server and leaves its session as it is.
ExitLeavesOpen ==
  /\ server # "database"
  /\ phase = "running"
  /\ phase' = "stopped"
  /\ UNCHANGED <<server, session, db, now, openConns, last, flight>>

\* main() of an HTTP server leaves its context: __aexit__ closes the session
\* if there is one.
Exit ==
  /\ server # "database"
  /\ phase = "running"
  /\ phase' = "stopped"
  /\ session' = IF session = "open" THEN "closed" ELSE session
  /\ UNCHANGED <<server, db, now, openConns, last, flight>>

\* The states of the MySQL backend a call can meet: one, when it does not ask for it.
MySqlFor(arguments) ==
  IF ~IsNone(arguments) /\ Get(arguments, "database", T("sqlite")) = T("mysql")
  THEN MySqlStates ELSE {"not_installed"}

\* The connections a call leaves open when it returns: those it opened and
\* did not close are finalised as its frame is released where the runtime
\* counts references, and stay until the collector runs where it does not.
LeftOpen(out) ==
  IF out.opened > out.closed THEN {0, out.opened - out.closed} ELSE {0}

\* One call of a tool of the database server, out of the given calls.  The
\* record of the call notes whether the call before it was a successful
\* initialisation.
DbCallOf(inputs) ==
  /\ server = "database"
  /\ phase = "running"
  /\ \E i \in DOMAIN inputs : \E mysql \in MySqlFor(inputs[i][2]) :
       LET out == DbHandleCallTool(inputs[i][1], inputs[i][2], db, now, mysql)
       IN /\ SeqOf(out.db, "customers") <= Len(customers_data) + MaxExtraIds
          /\ \E left \in LeftOpen(out) :
               /\ openConns + left <= MaxOpenConns
               /\ openConns' = openConns + left
          /\ db' = out.db
          /\ last' = [CallRecord(server, inputs[i][1], inputs[i][2], out) EXCEPT
                        !.afterInit = InitOk(last)]
  /\ UNCHANGED <<server, phase, session, now, flight>>

DbCall == DbCallOf(DbInputs)

StoreCall == DbCallOf(StoreInputs)

ClockCall == DbCallOf(ClockInputs)

\* One call of a tool of the web API server.
WebCall ==
  /\ server = "webapi"
  /\ phase = "running"
  /\ \E i \in DOMAIN WebInputs, net \in NetOutcomes :
       LET out == WebHandleCallTool(WebInputs[i][1], WebInputs[i][2], session, net)
       IN /\ session' = IF out.created = 1 THEN "open" ELSE session
          /\ flight' = IF out.created = 1 THEN EnsureSession(flight) ELSE flight
          /\ last' = [CallRecord(server, WebInputs[i][1], WebInputs[i][2], out) EXCEPT
                        !.response = IF out.requests = 0 THEN NoResponse ELSE net]
  /\ UNCHANGED <<server, phase, db, now, openConns>>

\* One call of a tool of the medical API server.
MedCall ==
  /\ server = "medical"
  /\ phase = "running"
  /\ \E i \in DOMAIN MedInputs, net \in NetOutcomes :
       LET out == MedHandleCallTool(MedInputs[i][1], MedInputs[i][2], session, net)
       IN /\ session' = IF out.created = 1 THEN "open" ELSE session
          /\ flight' = IF out.created = 1 THEN EnsureSession(flight) ELSE flight
          /\ last' = [CallRecord(server, MedInputs[i][1], MedInputs[i][2], out) EXCEPT
                        !.response = IF out.requests = 0 THEN NoResponse ELSE net]
  /\ UNCHANGED <<server, phase, db, now, openConns>>

\* A second passes on the clock CURRENT_TIMESTAMP reads.
Tick ==
  /\ server = "database"
  /\ now < MaxClock
  /\ now' = now + 1
  /\ UNCHANGED <<server, phase, session, db, openConns, last, flight>>

\* The runtime finalises the connection objects no call closed.
CollectGarbage ==
  /\ openConns > 0
  /\ openConns' = 0
  /\ UNCHANGED <<server, phase, session, db, now, last, flight>>

\* The three servers and every kind of call.
Next == Enter \/ Exit \/ DbCall \/ WebCall \/ MedCall \/ CollectGarbage

Spec == Init /\ [][Next]_vars

\* The calls that arrive while others wait for their responses.
ConcInputs(srv) ==
  IF srv = "webapi"
  THEN << <<"get_request", [url |-> Url]>>,
          <<"check_status", [url |-> Url]>>,
          <<"fetch_json", NoArgs>> >>
  ELSE << <<"icd11_lookup", [search_term |-> T("flu")]>>,
          <<"covid_stats_global", NoArgs>>,
          <<"npi_provider_lookup", NoArgs>> >>

\* handle_call_tool of the HTTP server that runs.
HttpHandleCallTool(srv, name, arguments, sess, net) ==
  IF srv = "webapi" THEN WebHandleCallTool(name, arguments, sess, net)
  ELSE MedHandleCallTool(name, arguments, sess, net)

\* A call arrives and runs to its first suspension point: a call that fails
\* its test of the parameters returns at once; any other calls
\* _ensure_session, sends its request on self.session and waits.
Begin ==
  /\ server # "database"
  /\ phase = "running"
  /\ \E s \in Slots, i \in DOMAIN ConcInputs(server) :
       LET call == ConcInputs(server)[i]
           unanswered == CHOOSE net \in NetOutcomes : "fail" \in DOMAIN net
           out == HttpHandleCallTool(server, call[1], call[2], session, unanswered)
           f == IF out.created = 1 \/ out.requests > 0 THEN EnsureSession(flight) ELSE flight
       IN /\ flight.calls[s].input = 0
          /\ f.made <= MaxClients
          /\ session' = IF f.ref # 0 /\ session = "None" THEN "open" ELSE session
          /\ IF out.requests = 0
             THEN /\ last' = CallRecord(server, call[1], call[2], out)
                  /\ flight' = f
             ELSE /\ last' = last
                  /\ flight' = [f EXCEPT !.calls[s] = [input |-> i, client |-> f.ref]]
  /\ UNCHANGED <<server, phase, db, now, openConns>>

\* The response to a waiting call arrives, or its request fails: the call
\* builds its text and returns.
Respond ==
  /\ server # "database"
  /\ phase = "running"
  /\ \E s \in Slots, net \in NetOutcomes :
       /\ flight.calls[s].input # 0
       /\ LET call == ConcInputs(server)[flight.calls[s].input]
              out == HttpHandleCallTool(server, call[1], call[2], "open", net)
          IN last' = [CallRecord(server, call[1], call[2], out) EXCEPT !.response = net]
       /\ flight' = [flight EXCEPT !.calls[s] = [input |-> 0, client |-> 0]]
  /\ UNCHANGED <<server, phase, session, db, now, openConns>>

\* One of the two HTTP servers has been started.
ConcInit == Init /\ server # "database"

\* An HTTP server whose calls interleave at their suspension points.
ConcNext == Enter \/ Begin \/ Respond

SpecConc == ConcInit /\ [][ConcNext]_vars

\* The database server at work on its store.
StoreInit == Init /\ server = "database"

StoreNext == Enter \/ StoreCall \/ CollectGarbage

SpecStore == StoreInit /\ [][StoreNext]_vars

\* The database server while time passes.
ClockNext == Enter \/ ClockCall \/ Tick

SpecClock == StoreInit /\ [][ClockNext]_vars

(* ------------------------------ properties ----------------------------- *)

\* The text of the single result of the call, "" when there is none.
TextOf(rec) == IF Len(rec.content) = 1 THEN rec.content[1].text ELSE ""

\* The names handle_list_tools publishes on each server.
Registry(srv) ==
  CASE srv = "database" -> DbTools
    [] srv = "webapi" -> WebTools
    [] srv = "medical" -> MedTools
    [] OTHER -> {}

\* The value the handler receives for a parameter whose default is "".
ArgOf(rec, key) ==
  IF IsNone(rec.arguments) \/ key \notin DOMAIN rec.arguments THEN T("")
  ELSE rec.arguments[key]

\* C1: on each of the three servers, a call whose tool name is not in the
\* server's registry, whatever its arguments, returns exactly one text result
\* "Error: Unknown tool: <name>" and nothing is raised to the caller.
C1_UnknownTool ==
  (last.server # "" /\ last.name \notin Registry(last.server)) =>
     /\ last.content = <<[type |-> "text", text |-> "Error: Unknown tool: " \o last.name]>>
     /\ last.escaped = ""

\* C1 at work: the database server was asked for a tool of the web server, with no arguments.
C1_Witness ==
  /\ last.server = "database"
  /\ last.name = "fetch_json"
  /\ IsNone(last.arguments)
  /\ TextOf(last) = "Error: Unknown tool: fetch_json"

\* C2: every call of handle_call_tool -- the handler succeeded, returned an
\* error text or raised -- yields exactly one result, of type text; an
\* exception becomes the text "Error: <message>" and none leaves the dispatcher.
C2_OneTextResult ==
  last.server # "" =>
     /\ Len(last.content) = 1
     /\ last.content[1].type = "text"
     /\ last.escaped = ""
     /\ last.failure \in {"exception", "unknown_tool"} =>
          /\ StartsWith(TextOf(last), "Error: ")
          /\ Len(TextOf(last)) > Len("Error: ")

\* C2 at work: execute_query with a null query raised inside the handler.
C2_Witness ==
  /\ last.name = "execute_query"
  /\ last.arguments = [query |-> None]
  /\ last.failure = "exception"
  /\ TextOf(last) = "Error: 'NoneType' object has no attribute 'strip'"

\* The call left a required parameter out or gave it empty.
MissingRequired(rec) ==
  \/ /\ rec.server = "database"
     /\ rec.name = "execute_query"
     /\ IsText(ArgOf(rec, "query"))
     /\ Strip(ArgOf(rec, "query").text) = ""
  \/ /\ rec.server = "database"
     /\ rec.name = "describe_table"
     /\ ArgOf(rec, "table_name") = T("")
  \/ /\ rec.server = "webapi"
     /\ rec.name \in WebTools
     /\ ArgOf(rec, "url") = T("")

\* C3: a call that omits a required parameter or gives it empty (execute_query
\* with an empty or blank query, describe_table with an empty table_name, the
\* six web tools with an empty URL) returns the error text that names the
\* parameter, opens no database connection and issues no HTTP request.
C3_MissingParameter ==
  MissingRequired(last) =>
     /\ TextOf(last) \in {"Error: Query cannot be empty", "Error: Table name is required",
                          "Error: URL is required"}
     /\ last.opened = 0
     /\ last.requests = 0

\* C3 at work: a query of white space only.
C3_Witness ==
  /\ last.name = "execute_query"
  /\ last.arguments = [query |-> T(" \t\n")]
  /\ TextOf(last) = "Error: Query cannot be empty"
  /\ last.opened = 0

\* The words a handler's own except branch puts before "Error: ".
HandlerLabel(name) ==
  CASE name = "get_request" -> "GET Request"
    [] name = "post_request" -> "POST Request"
    [] name = "put_request" -> "PUT Request"
    [] name = "delete_request" -> "DELETE Request"
    [] name = "fetch_json" -> "Fetch JSON"
    [] name = "check_status" -> "Status Check"
    [] name = "icd11_lookup" -> "ICD-11 Lookup"
    [] name = "fda_drug_search" -> "FDA Drug Search"
    [] name = "fda_device_search" -> "FDA Device Search"
    [] name = "infermedica_diagnosis" -> "Infermedica Diagnosis"
    [] name = "nutrition_facts" -> "Nutrition Facts"
    [] name = "npi_provider_lookup" -> "NPI Provider Lookup"
    [] name = "cms_marketplace_plans" -> "CMS Marketplace"
    [] name = "covid_stats_global" -> "COVID Stats Global"
    [] name = "covid_stats_country" -> "COVID Stats Country"
    [] name = "nhs_scotland_data" -> "NHS Scotland Data"
    [] OTHER -> "SQLite"

\* C4 as the specification words it: every failure of every tool, on all three
\* servers, comes back as one text result that begins with "Error: ".
C4_EveryFailureErrorPrefix ==
  last.failure # "" =>
     /\ Len(last.content) = 1
     /\ StartsWith(TextOf(last), "Error: ")

\* C4, amended: every failure comes back as one text result and none is
\* raised.  The text begins with "Error: " for a missing parameter, an unknown
\* tool, an unsupported database type, a missing MySQL connector, an exception
\* caught by handle_call_tool, a 4xx/5xx status met by fetch_json or a medical
\* tool, and a body fetch_json cannot decode.  A failure caught inside a handler
\* begins with that handler's label ("SQLite Error: ", "MySQL Error: ",
\* "Error initializing SQLite sample data: ", "GET Request Error: ",
\* "Fetch JSON Error: ", "FDA Drug Search Error: ", ...).  get_request,
\* post_request, put_request, delete_request and check_status report a 4xx/5xx
\* status, and a body that is not the JSON it is declared to be, as an ordinary
\* result ("Status: ...", "URL: ...").
C4_FailuresAreTexts ==
  last.failure # "" =>
     /\ Len(last.content) = 1
     /\ last.escaped = ""
     /\ LET text == TextOf(last)
            own == HandlerLabel(last.name) \o " Error: "
        IN CASE last.failure \in {"parameter", "unknown_tool", "unsupported", "connector",
                                  "exception"} ->
                  StartsWith(text, "Error: ")
             [] last.failure = "database" ->
                  \E p \in {"SQLite Error: ", "MySQL Error: ",
                            "Error initializing SQLite sample data: "} : StartsWith(text, p)
             [] last.failure = "transport" -> StartsWith(text, own)
             [] last.failure = "http" ->
                  IF last.server = "medical" \/ last.name = "fetch_json"
                  THEN StartsWith(text, "Error: HTTP ")
                  ELSE IF last.name = "check_status" THEN StartsWith(text, "URL: ")
                  ELSE StartsWith(text, "Status: ")
             [] last.failure = "json" ->
                  IF last.name = "fetch_json"
                  THEN text = "Error: Response is not valid JSON" \/ StartsWith(text, own)
                  ELSE IF last.server = "medical" THEN StartsWith(text, own)
                  ELSE StartsWith(text, "Status: ")

\* C4 at work: a statement SQLite rejects comes back under the handler's own label.
C4_Witness ==
  /\ last.name = "execute_query"
  /\ last.failure = "database"
  /\ TextOf(last) = "SQLite Error: near \"SELEC\": syntax error"

\* C5 as the specification words it: a call that gives an error result leaves
\* the database file as it was before the call.
C5_ErrorLeavesStoreUnchanged ==
  [][(last' # last /\ last'.failure # "") => db' = db]_vars

\* C6 as the specification words it: every connection a call opens is closed
\* when the call returns, so no connection is open between calls.
C6_NoConnectionStaysOpen == openConns = 0

\* The table names a list_tables result gives, one per line after the header.
ListedNames(text) ==
  LET lines == Split(text, "\n")
  IN IF StartsWith(text, "Columns: name\n\n") THEN SubSeq(lines, 3, Len(lines) - 1) ELSE <<>>

\* list_tables of the SQLite store, made right after a successful initialisation.
ListAfterInit ==
  /\ last.name = "list_tables"
  /\ last.afterInit
  /\ ArgOf(last, "database") \in {T(""), T("sqlite")}

\* C7 as the specification words it: list_tables right after a successful
\* initialisation gives customers, products and orders and no other name.
C7_ExactlyThreeTables ==
  ListAfterInit =>
     /\ Len(ListedNames(TextOf(last))) = 3
     /\ Range(ListedNames(TextOf(last))) = SeedTables

\* C7, amended: list_tables right after a successful initialisation gives
\* customers, products and orders, each once, together with sqlite_sequence
\* (the table SQLite keeps for the AUTOINCREMENT keys) and every other table
\* the database held before the initialisation.
C7_SeedTablesAmongAll ==
  ListAfterInit =>
     LET names == ListedNames(TextOf(last))
     IN /\ SeedTables \cup {"sqlite_sequence"} \subseteq Range(names)
        /\ Range(names) = {n \in TableNames : ObjType(db, n) = "table"}
        /\ Len(names) = Cardinality(Range(names))

\* C7 at work: the store held the table notes when it was initialised.
C7_Witness ==
  /\ ListAfterInit
  /\ Range(ListedNames(TextOf(last))) = SeedTables \cup {"sqlite_sequence", "notes"}

\* The row of the table as stored, without the time it was stored at.
Timeless(name, row) ==
  IF name \in {"customers", "orders"} THEN SubSeq(row, 1, Len(row) - 1) ELSE row

\* The seed row number i of the table with its key i, without the time it was stored at.
SeedRow(name, i) == <<I(i)>> \o SeedData(name)[i]

\* The table holds the seed rows and nothing else.
HoldsSeed(d, name) ==
  /\ ObjType(d, name) = "table"
  /\ Len(d.data[name]) = Len(SeedData(name))
  /\ \A i \in DOMAIN d.data[name] : Timeless(name, d.data[name][i]) = SeedRow(name, i)

\* C8: once init_sample_data has succeeded on the SQLite store, whatever calls
\* were made before it (inserts, deletes, drops), customers holds exactly the
\* 5 seed rows, products the 5 and orders the 6, and
\* SELECT COUNT(*) FROM customers gives one data row, 5.
C8_SeedRowsAfterInit ==
  InitOk(last) =>
     /\ \A name \in SeedTables : HoldsSeed(db, name)
     /\ Len(db.data["customers"]) = 5
     /\ Len(db.data["products"]) = 5
     /\ Len(db.data["orders"]) = 6
     /\ ExecuteSqliteQuery(db, QCount, <<>>, now).text = "Columns: COUNT(*)\n\n5\n"

\* C8 at work: the store had been initialised and used before (sqlite_sequence
\* is older than the seed tables, notes was created) when the call succeeded.
C8_Witness ==
  /\ InitOk(last)
  /\ ~last.afterInit
  /\ db.master[1].name = "sqlite_sequence"
  /\ ObjType(db, "notes") = "table"
  /\ Len(db.data["customers"]) = 5

\* The tables of the database and their rows.
Contents(d) == [tables |-> Range(d.master), rows |-> d.data]

\* The tables of the database and their rows, without the times the rows were stored at.
TimelessContents(d) ==
  [tables |-> Range(d.master),
   rows |-> [n \in TableNames |-> [i \in DOMAIN d.data[n] |-> Timeless(n, d.data[n][i])]]]

\* C9 as the specification words it: init_sample_data called right after a
\* successful init_sample_data succeeds and leaves the contents it found.
C9_SecondInitSameContents ==
  [][(InitOk(last) /\ last'.name = "init_sample_data") =>
       (InitOk(last') /\ Contents(db') = Contents(db))]_vars

\* C9, amended: init_sample_data called right after a successful
\* init_sample_data succeeds, and the database contents after the second call
\* equal the contents after the first (exactly 5 customer rows, not 10) except
\* for the created_at and order_date values, which hold the time of the call
\* that stored the rows.
C9_SecondInitSameButTimes ==
  [][(InitOk(last) /\ last'.name = "init_sample_data") =>
       /\ InitOk(last')
       /\ TimelessContents(db') = TimelessContents(db)
       /\ Len(db'.data["customers"]) = 5]_vars

\* C9 at work: the second of two calls in succession, made after the clock moved.
C9_Witness ==
  /\ InitOk(last)
  /\ last.afterInit
  /\ now = 1
  /\ db.data["customers"][1][5] = T(Timestamp(1))

\* execute_query on the SQLite store with a statement SQLite runs without error.
RanStatement(rec) ==
  /\ rec.name = "execute_query"
  /\ ArgOf(rec, "database") \in {T(""), T("sqlite")}
  /\ IsText(ArgOf(rec, "query"))
  /\ Strip(ArgOf(rec, "query").text) # ""
  /\ rec.failure = ""

\* The text is the lines of the result set: the header, an empty line, one
\* line per row, the values of a row separated by " | ".
IsResultText(text, cols, rows) ==
  LET line(i) == Join([k \in DOMAIN rows[i] |-> Str(rows[i][k])], " | ")
  IN text = "Columns: " \o Join(cols, ", ") \o "\n\n"
              \o Join([i \in DOMAIN rows |-> line(i)], "\n") \o "\n"

\* The leading part of each statement text, white space stripped and in upper case.
LeadTable == [q \in StatementTexts |-> Upper(Strip(q))]

\* C10: execute_query on the SQLite store goes by the leading keyword of the
\* statement, white space stripped and case ignored.  For a statement that
\* runs without error: when it starts with SELECT, WITH or PRAGMA, the result
\* is "No results found" for zero rows and otherwise a header line followed by
\* one line per row, the values separated by " | ", and the call commits
\* nothing; for any other statement the call commits once and returns
\* "Query executed successfully. Rows affected: <rowcount>".
C10_ByLeadingKeyword ==
  [][(last' # last /\ RanStatement(last')) =>
       LET query == ArgOf(last', "query").text
           params == Get(IF IsNone(last'.arguments) THEN NoArgs ELSE last'.arguments,
                         "params", L(<<>>)).list
           lead == IF query \in StatementTexts THEN LeadTable[query] ELSE Upper(Strip(query))
           r == ExecStmt(db, Parsed(query), params, now)
           text == TextOf(last')
       IN IF StartsWith(lead, "SELECT") \/ StartsWith(lead, "WITH") \/ StartsWith(lead, "PRAGMA")
          THEN /\ last'.commits = 0
               /\ IF r.rows = <<>> THEN text = "No results found"
                  ELSE IsResultText(text, r.cols, r.rows)
          ELSE /\ last'.commits = 1
               /\ text = "Query executed successfully. Rows affected: " \o ToString(r.rowcount)]_vars

\* C10 at work: a lower-case select with white space around it gave one row,
\* the count of the rows a committed insert left.
C10_Witness ==
  /\ RanStatement(last)
  /\ ArgOf(last, "query") = T(QCountLower)
  /\ TextOf(last) = "Columns: count(*)\n\n6\n"
  /\ last.commits = 0

\* The call went through the response formatter: one of the four request
\* tools of the web API server got a response.
Formatted(rec) ==
  /\ rec.server = "webapi"
  /\ rec.name \in {"get_request", "post_request", "put_request", "delete_request"}
  /\ "status" \in DOMAIN rec.response

\* The content type the response declares ("" when it declares none).
ContentTypeOf(resp) == HeaderGet(resp.headers, "content-type", "")

\* The three lines and the empty line the formatter puts before the body.
HeadLines(resp) ==
  "Status: " \o ToString(resp.status) \o "\n"
    \o "Content-Type: " \o ContentTypeOf(resp) \o "\n"
    \o "Response Length: " \o ToString(Len(resp.body)) \o " characters\n\n"

\* C11: for a body whose content type does not contain application/json, the
\* response formatter gives the body unchanged when it has at most 2000
\* characters, and exactly its first 2000 characters followed by
\* "\n... (truncated)" when it has more; the Response Length line gives the
\* full length of the body in both cases.
C11_TruncatesBeyond2000 ==
  (Formatted(last) /\ ~Contains(ContentTypeOf(last.response), "application/json")) =>
     LET body == last.response.body
     IN TextOf(last) =
          HeadLines(last.response)
            \o (IF Len(body) <= 2000 THEN body
                ELSE SubSeq(body, 1, 2000) \o "\n... (truncated)")

\* C11 at work: a body of 3000 characters came back cut to 2000.
C11_Witness ==
  /\ Formatted(last)
  /\ Len(last.response.body) = 3000
  /\ EndsWith(TextOf(last), "6789\n... (truncated)")
  /\ Len(TextOf(last)) = Len(HeadLines(last.response)) + 2000 + Len("\n... (truncated)")

\* C12: for a body whose content type contains application/json, the response
\* formatter gives the parsed body serialised again with an indentation of two
\* spaces and never cuts it, however long it is; a body that does not parse is
\* given raw and in full, and the call does not fail: nothing is raised and
\* the result is the formatted response, not an error text.
C12_JsonNeverTruncated ==
  (Formatted(last) /\ Contains(ContentTypeOf(last.response), "application/json")) =>
     LET body == last.response.body
     IN /\ last.escaped = ""
        /\ ~EndsWith(TextOf(last), "\n... (truncated)")
        /\ TextOf(last) =
             HeadLines(last.response) \o (IF IsJson(body) THEN JsonPretty(body) ELSE body)

\* C12 at work: a JSON array of 2103 characters came back indented and whole.
C12_Witness ==
  /\ Formatted(last)
  /\ last.response.body = LongJson
  /\ Len(last.response.body) > 2000
  /\ EndsWith(TextOf(last), "  1,\n  1\n]")
  /\ Len(TextOf(last)) = Len(HeadLines(last.response)) + Len(LongJsonPretty)

\* The request of a call on the web API server completed: a response came back.
Completed(rec) ==
  /\ rec.server = "webapi"
  /\ rec.name \in WebTools
  /\ "status" \in DOMAIN rec.response

\* The body as the response formatter shows it.
Shown(resp) ==
  IF Contains(ContentTypeOf(resp), "application/json")
  THEN IF IsJson(resp.body) THEN JsonPretty(resp.body) ELSE resp.body
  ELSE IF Len(resp.body) <= 2000 THEN resp.body
  ELSE SubSeq(resp.body, 1, 2000) \o "\n... (truncated)"

\* The header of the response under the name the server sent, as check_status
\* reads it from dict(response.headers).
SentHeader(resp, name) ==
  IF name \in DOMAIN resp.headers THEN resp.headers[name] ELSE "Unknown"

\* C13 as stated: each of the six tools of the web API server, when its
\* request completes, returns the status line, the content-type line and the
\* response-length line of the response formatter followed by the body.
C13_AllSixFormatted ==
  Completed(last) => TextOf(last) = HeadLines(last.response) \o Shown(last.response)

\* C13, amended: get_request, post_request, put_request and delete_request
\* return the response rendered by the formatter; fetch_json returns the
\* indented JSON body alone on status 200, "Error: HTTP <status>" on any other
\* status and an error text for a body it cannot decode; check_status returns
\* the lines URL, Status, Status Text, Server, Content-Type and Content-Length.
C13_FourFormatted ==
  Completed(last) =>
    LET resp == last.response
        text == TextOf(last)
    IN /\ last.escaped = ""
       /\ Formatted(last) => text = HeadLines(resp) \o Shown(resp)
       /\ last.name = "fetch_json" =>
            /\ ~StartsWith(text, "Status: ")
            /\ resp.status # 200 => text = "Error: HTTP " \o ToString(resp.status)
            /\ (resp.status = 200 /\ Contains(ContentTypeOf(resp), "application/json")
                  /\ IsJson(resp.body)) => text = JsonPretty(resp.body)
            /\ (resp.status = 200 /\ Contains(ContentTypeOf(resp), "application/json")
                  /\ ~IsJson(resp.body)) => text = "Error: Response is not valid JSON"
            /\ (resp.status = 200 /\ ~Contains(ContentTypeOf(resp), "application/json"))
                  => StartsWith(text, "Fetch JSON Error: ")
       /\ last.name = "check_status" =>
            text = "URL: " \o Str(ArgOf(last, "url")) \o "\n"
                     \o "Status: " \o ToString(resp.status) \o "\n"
                     \o "Status Text: " \o resp.reason \o "\n"
                     \o "Server: " \o SentHeader(resp, "server") \o "\n"
                     \o "Content-Type: " \o SentHeader(resp, "content-type") \o "\n"
                     \o "Content-Length: " \o SentHeader(resp, "content-length") \o "\n"

\* C13 at work: fetch_json got a JSON body with status 200 and returned the
\* indented body with no status, content-type or length line before it.
C13_Witness ==
  /\ Completed(last)
  /\ last.name = "fetch_json"
  /\ last.response.status = 200
  /\ last.response.body = "{\"a\": 1}"
  /\ TextOf(last) = "{\n  \"a\": 1\n}"

\* C14: check_status with a non-empty URL whose HEAD request completes with
\* any status code, 404 and the other error codes included, returns a text
\* that reports the code ("Status: 404") and is no error result, and nothing
\* is raised.
C14_StatusReportedNotError ==
  (Completed(last) /\ last.name = "check_status" /\ Truthy(ArgOf(last, "url"))) =>
     /\ last.escaped = ""
     /\ Len(last.content) = 1
     /\ Contains(TextOf(last), "\nStatus: " \o ToString(last.response.status) \o "\n")
     /\ ~StartsWith(TextOf(last), "Error")
     /\ ~StartsWith(TextOf(last), "Status Check Error")

\* C14 at work: the HEAD request came back with 404 and the text says so.
C14_Witness ==
  /\ Completed(last)
  /\ last.name = "check_status"
  /\ last.response.status = 404
  /\ Contains(TextOf(last), "\nStatus: 404\nStatus Text: Not Found\n")

\* The request of a call on the medical API server completed.
MedCompleted(rec) ==
  /\ rec.server = "medical"
  /\ rec.name \in MedTools
  /\ "status" \in DOMAIN rec.response

\* The body is JSON and the response says so: response.json() decodes it.
Decodes(resp) ==
  Contains(ContentTypeOf(resp), "application/json") /\ IsJson(resp.body)

\* C15: each of the ten tools of the medical API server, once its request
\* completes, returns the indented JSON body when the status is any 2xx code,
\* and returns "Error: HTTP <status> - <body>" exactly when the status is not
\* a 2xx code.
C15_Any2xxIsSuccess ==
  MedCompleted(last) =>
    LET resp == last.response
        errorText == "Error: HTTP " \o ToString(resp.status) \o " - " \o resp.body
    IN /\ (resp.status \in 200..299 /\ Decodes(resp)) => TextOf(last) = JsonPretty(resp.body)
       /\ (TextOf(last) = errorText) <=> (resp.status \notin 200..299)

\* The text with which each tool of the medical API server rejects a call
\* that lacks a parameter its schema requires.
MissingMessage(name) ==
  CASE name \in {"fda_drug_search", "fda_device_search"} -> "Error: Search term is required"
    [] name = "infermedica_diagnosis" -> "Error: Age, sex, symptoms, and API key are required"
    [] name = "nutrition_facts" -> "Error: Food query, API key, and App ID are required"
    [] name = "cms_marketplace_plans" -> "Error: ZIP code and API key are required"
    [] name = "covid_stats_country" -> "Error: Country is required"
    [] name = "nhs_scotland_data" -> "Error: Resource ID is required"
    [] OTHER -> "Error"

\* The call gives no value for the parameter: it is left out, None, an empty
\* text or an empty list.  The number 0 is a value.
Absent(rec, key) ==
  \/ IsNone(rec.arguments)
  \/ key \notin DOMAIN rec.arguments
  \/ rec.arguments[key] \in {None, T(""), L(<<>>)}

\* C16: a tool of the medical API server returns its missing-parameter error
\* if and only if a parameter its schema lists as required is absent; a call
\* that gives every required parameter a value of the declared type, such as
\* infermedica_diagnosis with age 0, a sex, a symptom and an api_key, is not
\* rejected and goes on to the HTTP request.
C16_RejectedIffRequiredAbsent ==
  (last.server = "medical" /\ MedRequired(last.name) # {}) =>
     /\ (TextOf(last) = MissingMessage(last.name))
          <=> (\E key \in MedRequired(last.name) : Absent(last, key))
     /\ (\A key \in MedRequired(last.name) : ~Absent(last, key)) => last.requests = 1

\* The call names a tool of its server and gives the parameters the tool's
\* handler tests before it sends its request.
Passes(rec) ==
  LET Given(key) == Truthy(ArgOf(rec, key))
  IN CASE rec.server = "webapi" -> rec.name \in WebTools /\ Given("url")
       [] rec.server = "medical" ->
            CASE rec.name = "icd11_lookup" -> Given("entity_id") \/ Given("search_term")
              [] rec.name \in {"fda_drug_search", "fda_device_search"} -> Given("search_term")
              [] rec.name = "infermedica_diagnosis" ->
                   Given("age") /\ Given("sex") /\ Given("symptoms") /\ Given("api_key")
              [] rec.name = "nutrition_facts" ->
                   Given("food_query") /\ Given("api_key") /\ Given("app_id")
              [] rec.name = "npi_provider_lookup" ->
                   Given("npi_number") \/ Given("provider_name") \/ Given("state")
              [] rec.name = "cms_marketplace_plans" -> Given("zip_code") /\ Given("api_key")
              [] rec.name = "covid_stats_global" -> TRUE
              [] rec.name = "covid_stats_country" -> Given("country")
              [] rec.name = "nhs_scotland_data" -> Given("resource_id")
              [] OTHER -> FALSE
       [] OTHER -> FALSE

\* C17: on the web API server and the medical API server a tool call issues
\* at most one HTTP request: exactly one when the handler's test of the
\* parameters passes (the client is usable whenever a call is handled), none
\* when it fails or the tool is unknown; no call sends a second request, not
\* even when the first got no response.
C17_AtMostOneRequest ==
  last.server \in {"webapi", "medical"} =>
     /\ last.requests \in {0, 1}
     /\ Passes(last) <=> last.requests = 1

\* C17 at work: a request that got no response was sent once and not again.
C17_Witness ==
  /\ last.server = "medical"
  /\ last.name = "npi_provider_lookup"
  /\ Passes(last)
  /\ last.failure = "transport"
  /\ last.requests = 1

\* C18 as stated: under main() the HTTP client of the two HTTP servers is
\* created lazily: a step that creates it is a tool call that needs to send a
\* request, so no client exists before the first such call and a server that
\* handles none never has one.
C18_CreatedLazily ==
  [][(server # "database" /\ session = "None" /\ session' # "None")
       => (last'.created = 1 /\ last'.server = server)]_vars

\* C18, amended: under main() the HTTP client is created on entry of the
\* server's context, before any tool call is handled: it exists from then on,
\* also in a server that handles no call, and no tool call creates one.
C18_CreatedOnEntry ==
  server # "database" =>
     /\ (session = "None") <=> (phase = "constructed")
     /\ last.created = 0

\* C18 at work: the server runs, has handled no call and has its client.
C18_Witness ==
  /\ server \in {"webapi", "medical"}
  /\ phase = "running"
  /\ last = NoCall
  /\ session = "open"

\* C19: when an HTTP server shuts down, the step that leaves the context of
\* main() closes the client that was created, the client is closed in that
\* step and in no other (once closed it stays closed), and no tool call is
\* handled, and so no request sent on the client, after it has been closed.
C19_ClosedOnceAtShutdown ==
  [][server # "database" =>
       /\ (phase = "running" /\ phase' = "stopped") => (session = "open" /\ session' = "closed")
       /\ (session # "closed" /\ session' = "closed") => (phase = "running" /\ phase' = "stopped")
       /\ session = "closed" => (session' = "closed" /\ last' = last)]_vars

\* C19 at work: the server has stopped, and the client a call had sent its
\* request on is closed.
C19_Witness ==
  /\ server \in {"webapi", "medical"}
  /\ phase = "stopped"
  /\ session = "closed"
  /\ last.requests = 1

\* The call ended in the unknown-tool branch of handle_call_tool.
Unrouted(rec) == TextOf(rec) = "Error: Unknown tool: " \o rec.name

\* C20: on each server the names handle_list_tools publishes are the names
\* handle_call_tool routes to a handler: a call of a listed tool never ends in
\* the unknown-tool branch, and a call of any other name always does.
C20_ListedIffRouted ==
  last.server # "" => ((last.name \in Registry(last.server)) <=> ~Unrouted(last))

\* C20 at work: the last tool the web API server lists was routed to its
\* handler, which sent its request.
C20_Witness ==
  /\ last.server = "webapi"
  /\ last.name = "check_status"
  /\ last.name \in Registry(last.server)
  /\ ~Unrouted(last)
  /\ last.requests = 1

\* The statement with which list_tables asks the backend for its tables; a
\* backend the server does not know is asked nothing, and any statement
\* stands for it.
IntrospectionOf(database) ==
  IF database = T("mysql") THEN "SHOW TABLES;" ELSE QListTables

\* What execute_query returns for the introspection statement of the backend,
\* the same database parameter and an empty parameter list.
ByExecuteQuery(d, database, t, mysql) ==
  DbHandleCallTool("execute_query",
                   [query |-> T(IntrospectionOf(database)), database |-> database,
                    params |-> L(<<>>)],
                   d, t, mysql)

\* C21: whatever the database parameter (sqlite, mysql, any other text) and
\* whatever the store holds, list_tables returns what execute_query returns
\* for the backend's introspection statement, the same database and an empty
\* parameter list, in every state of the MySQL backend, and leaves the store
\* as execute_query leaves it.
C21_ListTablesIsExecuteQuery ==
  [][(server = "database" /\ last'.name = "list_tables") =>
       LET database == IF "database" \in DOMAIN last'.arguments
                       THEN last'.arguments.database ELSE T("sqlite")
       IN /\ \A mysql \in MySqlStates :
               LET lt == DbHandleCallTool("list_tables", last'.arguments, db, now, mysql)
                   eq == ByExecuteQuery(db, database, now, mysql)
               IN lt.text = eq.text /\ lt.raise = eq.raise /\ lt.db = eq.db
          /\ \E mysql \in MySqlStates :
               LET eq == ByExecuteQuery(db, database, now, mysql)
               IN /\ last'.content = <<[type |-> "text", text |-> eq.text]>>
                  /\ db' = eq.db]_vars

\* C21 at work: list_tables named the tables of an initialised store, as the
\* introspection statement does through execute_query.
C21_Witness ==
  /\ last.server = "database"
  /\ last.name = "list_tables"
  /\ last.afterInit
  /\ StartsWith(TextOf(last), "Columns: name\n\n")
  /\ TextOf(last) = ByExecuteQuery(db, T("sqlite"), now, "not_installed").text

\* The call selects the MySQL backend through one of the three tools that
\* hand it a statement.
SelectsMysql(rec) ==
  /\ rec.server = "database"
  /\ rec.name \in {"execute_query", "list_tables", "describe_table"}
  /\ ArgOf(rec, "database") = T("mysql")

ConnectorMissing ==
  "Error: mysql-connector-python not installed. Run: pip install mysql-connector-python"

\* C22: with the MySQL connector not installed, or the connection refused,
\* every call of execute_query, list_tables or describe_table that selects
\* database "mysql" returns an error text that says what is wrong (the
\* connector is missing, the MySQL error, or the parameter that is missing),
\* nothing is raised, the server keeps running and the SQLite store is left as
\* it was.
C22_MysqlUnavailable ==
  [][SelectsMysql(last') =>
       /\ last'.escaped = ""
       /\ \/ TextOf(last') = ConnectorMissing
          \/ StartsWith(TextOf(last'), "MySQL Error: ")
          \/ /\ MissingRequired(last')
             /\ TextOf(last') \in {"Error: Query cannot be empty", "Error: Table name is required"}
          \/ /\ ~IsText(ArgOf(last', "query"))
             /\ StartsWith(TextOf(last'), "Error: ")
       /\ last'.opened = 0
       /\ last'.commits = 0
       /\ db' = db
       /\ phase' = "running"]_vars

\* C22 at work: describe_table asked an unreachable MySQL server about a
\* table while the SQLite store held the sample tables, and the store kept them.
C22_Witness ==
  /\ SelectsMysql(last)
  /\ last.name = "describe_table"
  /\ StartsWith(TextOf(last), "MySQL Error: ")
  /\ phase = "running"
  /\ HoldsSeed(db, "customers")

\* The call names a tool of the database server and a backend that is
\* neither "sqlite" nor "mysql".
UnknownBackend(rec) ==
  /\ rec.server = "database"
  /\ rec.name \in DbTools
  /\ IsText(ArgOf(rec, "database"))
  /\ "database" \in DOMAIN rec.arguments
  /\ ArgOf(rec, "database") \notin {T("sqlite"), T("mysql")}

\* The parameter the tool requires is given: the query of execute_query, the
\* table_name of describe_table; the other two tools require none.
RequiredGiven(rec) ==
  /\ rec.name = "execute_query" =>
       (IsText(ArgOf(rec, "query")) /\ Strip(ArgOf(rec, "query").text) # "")
  /\ rec.name = "describe_table" => Truthy(ArgOf(rec, "table_name"))

\* C23: a call of one of the four database tools with its required parameter
\* present and a database that is neither "sqlite" nor "mysql" returns
\* "Error: Unsupported database type: <database>", opens no connection and
\* leaves the SQLite store as it was; with the required parameter missing as
\* well, it returns the missing-parameter error.
C23_UnsupportedBackend ==
  [][UnknownBackend(last') =>
       /\ RequiredGiven(last') =>
            TextOf(last') = "Error: Unsupported database type: " \o ArgOf(last', "database").text
       /\ MissingRequired(last') =>
            TextOf(last') \in {"Error: Query cannot be empty", "Error: Table name is required"}
       /\ last'.opened = 0
       /\ db' = db]_vars

\* C23 at work: describe_table was given a table and the backend "oracle"
\* while the store held the sample tables.
C23_Witness ==
  /\ UnknownBackend(last)
  /\ last.name = "describe_table"
  /\ RequiredGiven(last)
  /\ TextOf(last) = "Error: Unsupported database type: oracle"
  /\ HoldsSeed(db, "orders")

\* C24: npi_provider_lookup returns "Error: Either NPI number or provider name
\* is required" and sends no request whenever the call gives neither an
\* npi_number nor a provider_name, a call that gives a state alone included.
C24_NumberOrNameRequired ==
  (/\ last.server = "medical"
   /\ last.name = "npi_provider_lookup"
   /\ ~Truthy(ArgOf(last, "npi_number"))
   /\ ~Truthy(ArgOf(last, "provider_name"))) =>
     /\ TextOf(last) = "Error: Either NPI number or provider name is required"
     /\ last.requests = 0

\* C25: in each HTTP server, however its tool calls interleave at their
\* suspension points, at most one HTTP client is constructed per server
\* object, every request is sent on that client, and self.session, once set,
\* is never set again.
C25_OneClient ==
  [][/\ flight'.made <= 1
     /\ flight.ref # 0 => flight'.ref = flight.ref
     /\ \A s \in Slots :
          flight'.calls[s].input # 0 =>
            (flight'.calls[s].client = flight'.ref /\ flight'.ref = 1)]_vars

\* C25 at work: two calls wait for their responses at the same time, both on
\* the one client of the server.
C25_Witness ==
  /\ flight.made = 1
  /\ flight.calls[1].input # 0
  /\ flight.calls[2].input # 0
  /\ flight.calls[1].client = 1
  /\ flight.calls[2].client = 1

\* C26: for every response that comes back, whatever its status, content type
\* and body, the text get_request builds with its own lines is the text
\* _format_response builds for the same response, so get_request formats as
\* post_request, put_request and delete_request do.
C26_GetFormatsAsFormatter ==
  (Completed(last) /\ last.name = "get_request") =>
     /\ TextOf(last) = FormatResponse(last.response)
     /\ GetRequestFormat(last.response) = FormatResponse(last.response)

\* C26 at work: get_request cut a body of 3000 characters as the formatter does.
C26_Witness ==
  /\ Completed(last)
  /\ last.name = "get_request"
  /\ last.response.body = Body3000
  /\ TextOf(last) = FormatResponse(last.response)
  /\ EndsWith(TextOf(last), "\n... (truncated)")

\* The call is of one of the two tools that only ask about the tables.
AsksAboutTables(rec) ==
  /\ rec.server = "database"
  /\ rec.name \in {"list_tables", "describe_table"}

\* The backend the call selects: "sqlite" when it names none.
BackendOf(rec) ==
  IF ~IsNone(rec.arguments) /\ "database" \in DOMAIN rec.arguments
  THEN rec.arguments.database ELSE T("sqlite")

\* The statement the tool hands to the backend it selects.
StatementOf(rec) ==
  CASE rec.name = "list_tables" /\ BackendOf(rec) = T("mysql") -> "SHOW TABLES;"
    [] rec.name = "list_tables" -> QListTables
    [] BackendOf(rec) = T("mysql") -> "DESCRIBE " \o Str(ArgOf(rec, "table_name")) \o ";"
    [] OTHER -> PragmaPrefix \o Str(ArgOf(rec, "table_name")) \o ");"

KeysOf(d, name) == {row[1] : row \in Range(d.data[name])}

\* The place of the DROP TABLE of the table among the statements of the
\* initialisation.
DropPlace(name) ==
  CHOOSE i \in DOMAIN InitStatements :
    InitStatements[i].op = "drop_table" /\ InitStatements[i].name = name

\* C28: after every init_sample_data that succeeds, whatever calls came
\* before (initialisations and inserts among them), every row of orders
\* names in customer_id the key of a row of customers and in product_id the
\* key of a row of products: the customers and the products just inserted
\* have the keys 1 to 5 again; and the initialisation drops orders before
\* the two tables it refers to.
C28_OrdersReferToRows ==
  InitOk(last) =>
     /\ \A order \in Range(db.data["orders"]) :
          /\ order[2] \in KeysOf(db, "customers")
          /\ order[3] \in KeysOf(db, "products")
     /\ KeysOf(db, "customers") = {I(k) : k \in 1..5}
     /\ KeysOf(db, "products") = {I(k) : k \in 1..5}
     /\ DropPlace("orders") < DropPlace("customers")
     /\ DropPlace("orders") < DropPlace("products")

\* C28 at work: the store had been initialised before (sqlite_sequence is
\* older than the seed tables), the keys of customers start at 1 again, and
\* the six orders refer to rows that are there.
C28_Witness ==
  /\ InitOk(last)
  /\ db.master[1].name = "sqlite_sequence"
  /\ SeqOf(db, "customers") = 5
  /\ Len(db.data["orders"]) = 6
  /\ \A order \in Range(db.data["orders"]) : order[2] \in KeysOf(db, "customers")

====
